---- MODULE Spec2Model ----
(***************************************************************************)
(* The GitlabExtended node: GitlabExtended.execute walks the input items   *)
(* in order and, for the mergeRequest resource, hands each item to         *)
(* handleMergeRequest, which resolves the item's parameters, builds one    *)
(* request (method, endpoint, body, qs) or throws, and awaits the          *)
(* Executor (gitlabApiRequest / gitlabApiRequestAllItems).                 *)
(*                                                                         *)
(* JavaScript values are modelled as follows.  A parameter object is a     *)
(* function whose DOMAIN is the set of supplied parameter names; a string  *)
(* is a string, a boolean a BOOLEAN; a value of type `number | null` is a  *)
(* set of at most one integer ({} is null, {n} the number n); an object    *)
(* literal is a function from its keys to its values.                      *)
(***************************************************************************)
EXTENDS Integers, Sequences, FiniteSets, TLC

VARIABLES items, pc, i, operation, resource, inflight, sent, http, returnData, error

vars == <<items, pc, i, operation, resource, inflight, sent, http, returnData, error>>

(***************************************************************************)
(* Bounds of the model.                                                    *)
(***************************************************************************)
MaxIid == 1
MaxLine == 1
MaxResp == 2
MaxItems == 2
MaxPages == 2

(***************************************************************************)
(* Values.                                                                 *)
(***************************************************************************)
Null == {}
Num(n) == {n}
NumberOf(v) == CHOOSE n \in v : TRUE
EmptyObject == <<>>
NoRequest == [kind |-> "none"]
Base == "/projects/1"

Throw(msg) == [kind |-> "error", message |-> msg]
\* the error that left execute: where it was thrown, for which item, its message
NoError == [at |-> "none", item |-> 0, message |-> ""]
Thrown(at, item, msg) == [at |-> at, item |-> item, message |-> msg]
Request(method, endpoint, body, qs, returnAll) ==
    [kind |-> "request", method |-> method, endpoint |-> endpoint,
     body |-> body, qs |-> qs, returnAll |-> returnAll]

(***************************************************************************)
(* The Field Resolver.  getNodeParameter(name, index, defaultValue)        *)
(* returns the supplied value, else the default when one is given, else    *)
(* throws "Could not get parameter <name>".                                *)
(***************************************************************************)
hasOwnProperty(params, name) == name \in DOMAIN params
getNodeParameter(params, name, defaultValue) ==
    IF hasOwnProperty(params, name) THEN params[name] ELSE defaultValue
CouldNotGet(name) == "Could not get parameter " \o name

(***************************************************************************)
(* requirePositive(value, name, itemIndex): the validator of numeric ids.  *)
(***************************************************************************)
IsPositive(value) == value > 0
requirePositiveMessage(name) == name \o " must be a positive number"

(***************************************************************************)
(* postDiscussionNote: the position object and its nested line range.      *)
(***************************************************************************)
\* a slip: startSha is not looked at
hasPositionWithoutStartSha(newPath, oldPath, baseSha, headSha, startSha) ==
    newPath # "" /\ oldPath # "" /\ baseSha # "" /\ headSha # ""

hasPosition(newPath, oldPath, baseSha, headSha, startSha) ==
    newPath # "" /\ oldPath # "" /\ baseSha # "" /\ headSha # "" /\ startSha # ""

\* a slip: the bound is off by one
oldLineBelowMinusOne(oldLine) == oldLine # Null /\ NumberOf(oldLine) < -1

oldLineIsNegative(oldLine) == oldLine # Null /\ NumberOf(oldLine) < 0

hasLineRange(startLineCode, startType, endLineCode, endType) ==
    startLineCode # "" /\ startType # "" /\ endLineCode # "" /\ endType # ""

\* a slip: the line numbers are added on a truthiness test, which drops 0
lineRangeSideTruthy(lineCode, type, oldLine, newLine) ==
    ("line_code" :> lineCode) @@ ("type" :> type)
    @@ (IF oldLine # Null /\ NumberOf(oldLine) # 0
        THEN "old_line" :> NumberOf(oldLine) ELSE EmptyObject)
    @@ (IF newLine # Null /\ NumberOf(newLine) # 0
        THEN "new_line" :> NumberOf(newLine) ELSE EmptyObject)

lineRangeSide(lineCode, type, oldLine, newLine) ==
    ("line_code" :> lineCode) @@ ("type" :> type)
    @@ (IF oldLine # Null THEN "old_line" :> NumberOf(oldLine) ELSE EmptyObject)
    @@ (IF newLine # Null THEN "new_line" :> NumberOf(newLine) ELSE EmptyObject)

buildLineRange(p) ==
    [start |-> lineRangeSide(getNodeParameter(p, "lineRangeStartLineCode", ""),
                             getNodeParameter(p, "lineRangeStartType", ""),
                             getNodeParameter(p, "lineRangeStartOldLine", Null),
                             getNodeParameter(p, "lineRangeStartNewLine", Null)),
     end   |-> lineRangeSide(getNodeParameter(p, "lineRangeEndLineCode", ""),
                             getNodeParameter(p, "lineRangeEndType", ""),
                             getNodeParameter(p, "lineRangeEndOldLine", Null),
                             getNodeParameter(p, "lineRangeEndNewLine", Null))]

\* a slip: position_type is left out
positionBaseWithoutType(positionType, newPath, oldPath, baseSha, headSha, startSha) ==
    [new_path |-> newPath, old_path |-> oldPath,
     base_sha |-> baseSha, head_sha |-> headSha, start_sha |-> startSha]

positionBase(positionType, newPath, oldPath, baseSha, headSha, startSha) ==
    [position_type |-> IF positionType # "" THEN positionType ELSE "text",
     new_path |-> newPath, old_path |-> oldPath,
     base_sha |-> baseSha, head_sha |-> headSha, start_sha |-> startSha]

positionNewLine(newLine) ==
    IF newLine # Null THEN "new_line" :> NumberOf(newLine) ELSE EmptyObject

\* a slip: old_line is treated like new_line, so 0 is kept
positionOldLineKeepsZero(oldLine) ==
    IF oldLine # Null THEN "old_line" :> NumberOf(oldLine) ELSE EmptyObject

positionOldLine(oldLine) ==
    IF oldLine # Null /\ NumberOf(oldLine) # 0
    THEN "old_line" :> NumberOf(oldLine) ELSE EmptyObject

positionLineRange(p) ==
    IF hasLineRange(getNodeParameter(p, "lineRangeStartLineCode", ""),
                    getNodeParameter(p, "lineRangeStartType", ""),
                    getNodeParameter(p, "lineRangeEndLineCode", ""),
                    getNodeParameter(p, "lineRangeEndType", ""))
    THEN "line_range" :> buildLineRange(p) ELSE EmptyObject

buildPosition(p) ==
    positionBase(getNodeParameter(p, "positionType", ""),
                 getNodeParameter(p, "newPath", ""),
                 getNodeParameter(p, "oldPath", ""),
                 getNodeParameter(p, "baseSha", ""),
                 getNodeParameter(p, "headSha", ""),
                 getNodeParameter(p, "startSha", ""))
    @@ positionNewLine(getNodeParameter(p, "newLine", Null))
    @@ positionOldLine(getNodeParameter(p, "oldLine", Null))
    @@ positionLineRange(p)

paramsHavePosition(p) ==
    hasPosition(getNodeParameter(p, "newPath", ""),
                getNodeParameter(p, "oldPath", ""),
                getNodeParameter(p, "baseSha", ""),
                getNodeParameter(p, "headSha", ""),
                getNodeParameter(p, "startSha", ""))

\* a slip: commit_id and created_at are written even when empty
noteBodyWritesEmpty(note, commitId, createdAt) ==
    [body |-> note, commit_id |-> commitId, created_at |-> createdAt]

noteBody(note, commitId, createdAt) ==
    ("body" :> note)
    @@ (IF commitId # "" THEN "commit_id" :> commitId ELSE EmptyObject)
    @@ (IF createdAt # "" THEN "created_at" :> createdAt ELSE EmptyObject)

OldLineMessage == "The \"oldLine\" parameter must be a non-negative number."
DiscussionIdMessage == "Discussion ID must be provided when replying to a discussion."

discussionsEndpoint(base, iid) ==
    base \o "/merge_requests/" \o ToString(iid) \o "/discussions"
\* a slip: the reply goes to the discussion itself
discussionNotesEndpointWithoutNotes(base, iid, discussionId) ==
    base \o "/merge_requests/" \o ToString(iid) \o "/discussions/" \o discussionId

discussionNotesEndpoint(base, iid, discussionId) ==
    base \o "/merge_requests/" \o ToString(iid) \o "/discussions/" \o discussionId
         \o "/notes"

\* a slip: discussionId is read with a default of '' and the empty check is lost
postDiscussionNoteTargetLenient(p, base, iid, body) ==
    IF getNodeParameter(p, "startDiscussion", FALSE)
    THEN Request("POST", discussionsEndpoint(base, iid), body, EmptyObject, FALSE)
    ELSE Request("POST",
                 discussionNotesEndpoint(base, iid, getNodeParameter(p, "discussionId", "")),
                 body, EmptyObject, FALSE)

\* lines 163-174: the endpoint of the note, or the missing-discussionId error
postDiscussionNoteTarget(p, base, iid, body) ==
    IF getNodeParameter(p, "startDiscussion", FALSE)
    THEN Request("POST", discussionsEndpoint(base, iid), body, EmptyObject, FALSE)
    ELSE IF ~hasOwnProperty(p, "discussionId") THEN Throw(CouldNotGet("discussionId"))
    ELSE IF p["discussionId"] = "" THEN Throw(DiscussionIdMessage)
    ELSE Request("POST", discussionNotesEndpoint(base, iid, p["discussionId"]),
                 body, EmptyObject, FALSE)

\* a slip: oldLine is checked before the location fields are looked at
postDiscussionNotePositionCheckFirst(p, base, iid, body) ==
    IF oldLineIsNegative(getNodeParameter(p, "oldLine", Null))
    THEN Throw(OldLineMessage)
    ELSE IF paramsHavePosition(p)
         THEN postDiscussionNoteTarget(p, base, iid,
                                       body @@ ("position" :> buildPosition(p)))
         ELSE postDiscussionNoteTarget(p, base, iid, body)

\* a slip: without a position the line range is put on the body itself
postDiscussionNotePositionLooseLineRange(p, base, iid, body) ==
    IF paramsHavePosition(p)
    THEN IF oldLineIsNegative(getNodeParameter(p, "oldLine", Null))
         THEN Throw(OldLineMessage)
         ELSE postDiscussionNoteTarget(p, base, iid,
                                       body @@ ("position" :> buildPosition(p)))
    ELSE postDiscussionNoteTarget(p, base, iid, body @@ positionLineRange(p))

\* lines 106-161: the body with its position, or the negative-oldLine error
postDiscussionNotePosition(p, base, iid, body) ==
    IF paramsHavePosition(p)
    THEN IF oldLineIsNegative(getNodeParameter(p, "oldLine", Null))
         THEN Throw(OldLineMessage)
         ELSE postDiscussionNoteTarget(p, base, iid,
                                       body @@ ("position" :> buildPosition(p)))
    ELSE postDiscussionNoteTarget(p, base, iid, body)

\* a slip: the discussion target is checked before the position is looked at
postDiscussionNoteTargetFirst(p, base) ==
    IF ~hasOwnProperty(p, "mergeRequestIid") THEN Throw(CouldNotGet("mergeRequestIid"))
    ELSE IF ~IsPositive(p["mergeRequestIid"])
         THEN Throw(requirePositiveMessage("mergeRequestIid"))
    ELSE IF ~hasOwnProperty(p, "body") THEN Throw(CouldNotGet("body"))
    ELSE IF postDiscussionNoteTarget(p, base, p["mergeRequestIid"], EmptyObject).kind
                = "error"
         THEN postDiscussionNoteTarget(p, base, p["mergeRequestIid"], EmptyObject)
    ELSE postDiscussionNotePosition(p, base, p["mergeRequestIid"],
             noteBody(p["body"], getNodeParameter(p, "commitId", ""),
                      getNodeParameter(p, "createdAt", "")))

postDiscussionNote(p, base) ==
    IF ~hasOwnProperty(p, "mergeRequestIid") THEN Throw(CouldNotGet("mergeRequestIid"))
    ELSE IF ~IsPositive(p["mergeRequestIid"])
         THEN Throw(requirePositiveMessage("mergeRequestIid"))
    ELSE IF ~hasOwnProperty(p, "body") THEN Throw(CouldNotGet("body"))
    ELSE postDiscussionNotePosition(p, base, p["mergeRequestIid"],
             noteBody(p["body"], getNodeParameter(p, "commitId", ""),
                      getNodeParameter(p, "createdAt", "")))

(***************************************************************************)
(* updateDiscussionNote.                                                   *)
(***************************************************************************)
MutuallyExclusiveMessage == "body and resolved are mutually exclusive"

resolvedProvided(resolvedChoice) == resolvedChoice # "none"

\* a slip: "false" falls through to null
resolvedValueTrueOrNull(resolvedChoice) ==
    IF resolvedChoice = "true" THEN {TRUE} ELSE Null

\* line 193: true, false or null
resolvedValue(resolvedChoice) ==
    IF resolvedChoice = "true" THEN {TRUE}
    ELSE IF resolvedChoice = "false" THEN {FALSE} ELSE Null

\* a slip: the gate looks at the "true" choice only
bodyAndResolvedTrueOnly(newBody, resolvedChoice) ==
    newBody # "" /\ resolvedChoice = "true"

bodyAndResolved(newBody, resolvedChoice) ==
    newBody # "" /\ resolvedProvided(resolvedChoice)

\* lines 197-201
discussionNoteUpdate(newBody, resolvedChoice) ==
    IF newBody # "" THEN "body" :> newBody
    ELSE IF resolvedProvided(resolvedChoice)
         THEN "resolved" :> resolvedValue(resolvedChoice)
         ELSE EmptyObject

discussionNoteEndpoint(base, iid, discussionId, noteId) ==
    base \o "/merge_requests/" \o ToString(iid) \o "/discussions/" \o discussionId
         \o "/notes/" \o ToString(noteId)

updateDiscussionNote(p, base) ==
    IF ~hasOwnProperty(p, "mergeRequestIid") THEN Throw(CouldNotGet("mergeRequestIid"))
    ELSE IF ~IsPositive(p["mergeRequestIid"])
         THEN Throw(requirePositiveMessage("mergeRequestIid"))
    ELSE IF ~hasOwnProperty(p, "discussionId") THEN Throw(CouldNotGet("discussionId"))
    ELSE IF ~hasOwnProperty(p, "noteId") THEN Throw(CouldNotGet("noteId"))
    ELSE IF ~IsPositive(p["noteId"]) THEN Throw(requirePositiveMessage("noteId"))
    ELSE IF bodyAndResolved(getNodeParameter(p, "body", ""),
                            getNodeParameter(p, "resolved", "none"))
         THEN Throw(MutuallyExclusiveMessage)
    ELSE Request("PUT",
                 discussionNoteEndpoint(base, p["mergeRequestIid"], p["discussionId"],
                                        p["noteId"]),
                 discussionNoteUpdate(getNodeParameter(p, "body", ""),
                                      getNodeParameter(p, "resolved", "none")),
                 EmptyObject, FALSE)

(***************************************************************************)
(* The other operations of handleMergeRequest.                             *)
(***************************************************************************)
mergeRequestsEndpoint(base) == base \o "/merge_requests"
\* a slip: the iid is left out of the path
mergeRequestEndpointWithoutIid(base, iid) == base \o "/merge_requests"

mergeRequestEndpoint(base, iid) == base \o "/merge_requests/" \o ToString(iid)
noteEndpoint(base, iid, noteId) ==
    mergeRequestEndpoint(base, iid) \o "/notes/" \o ToString(noteId)
discussionEndpoint(base, iid, discussionId) ==
    mergeRequestEndpoint(base, iid) \o "/discussions/" \o discussionId

\* addOptionalStringParam(body, name, bodyKey, itemIndex)
addOptionalStringParam(p, name, bodyKey) ==
    IF getNodeParameter(p, name, "") # "" THEN bodyKey :> p[name] ELSE EmptyObject

\* the first of names that is not supplied, "" when all are
firstMissing(p, names) ==
    IF \A j \in 1..Len(names) : hasOwnProperty(p, names[j]) THEN ""
    ELSE names[CHOOSE j \in 1..Len(names) :
                   /\ ~hasOwnProperty(p, names[j])
                   /\ \A h \in 1..(j - 1) : hasOwnProperty(p, names[h])]

\* the reads of one required positive id: getNodeParameter, then requirePositive
positiveIdError(p, name) ==
    IF ~hasOwnProperty(p, name) THEN CouldNotGet(name)
    ELSE IF ~IsPositive(p[name]) THEN requirePositiveMessage(name) ELSE ""

create(p, base) ==
    IF firstMissing(p, <<"source", "target", "title">>) # ""
    THEN Throw(CouldNotGet(firstMissing(p, <<"source", "target", "title">>)))
    ELSE Request("POST", mergeRequestsEndpoint(base),
                 [source_branch |-> p["source"], target_branch |-> p["target"],
                  title |-> p["title"]]
                 @@ addOptionalStringParam(p, "description", "description"),
                 EmptyObject, FALSE)

get(p, base) ==
    IF positiveIdError(p, "mergeRequestIid") # ""
    THEN Throw(positiveIdError(p, "mergeRequestIid"))
    ELSE Request("GET", mergeRequestEndpoint(base, p["mergeRequestIid"]),
                 EmptyObject, EmptyObject, FALSE)

\* a slip: limit is read, and per_page written, whatever returnAll is
listRequestAlwaysReadsLimit(p, endpoint) ==
    IF ~hasOwnProperty(p, "returnAll") THEN Throw(CouldNotGet("returnAll"))
    ELSE IF ~hasOwnProperty(p, "limit") THEN Throw(CouldNotGet("limit"))
    ELSE Request("GET", endpoint, EmptyObject, "per_page" :> p["limit"], p["returnAll"])

\* returnAll, then limit only when returnAll is false
listRequest(p, endpoint) ==
    IF ~hasOwnProperty(p, "returnAll") THEN Throw(CouldNotGet("returnAll"))
    ELSE IF p["returnAll"] THEN Request("GET", endpoint, EmptyObject, EmptyObject, TRUE)
    ELSE IF ~hasOwnProperty(p, "limit") THEN Throw(CouldNotGet("limit"))
    ELSE Request("GET", endpoint, EmptyObject, "per_page" :> p["limit"], FALSE)

getAll(p, base) == listRequest(p, mergeRequestsEndpoint(base))

createNote(p, base) ==
    IF ~hasOwnProperty(p, "body") THEN Throw(CouldNotGet("body"))
    ELSE IF positiveIdError(p, "mergeRequestIid") # ""
    THEN Throw(positiveIdError(p, "mergeRequestIid"))
    ELSE Request("POST", mergeRequestEndpoint(base, p["mergeRequestIid"]) \o "/notes",
                 "body" :> p["body"], EmptyObject, FALSE)

\* a slip: mergeRequestIid is checked before noteId, as in the other operations
updateNoteIidFirst(p, base) ==
    IF positiveIdError(p, "mergeRequestIid") # ""
    THEN Throw(positiveIdError(p, "mergeRequestIid"))
    ELSE IF positiveIdError(p, "noteId") # "" THEN Throw(positiveIdError(p, "noteId"))
    ELSE IF ~hasOwnProperty(p, "body") THEN Throw(CouldNotGet("body"))
    ELSE Request("PUT", noteEndpoint(base, p["mergeRequestIid"], p["noteId"]),
                 "body" :> p["body"], EmptyObject, FALSE)

updateNote(p, base) ==
    IF positiveIdError(p, "noteId") # "" THEN Throw(positiveIdError(p, "noteId"))
    ELSE IF ~hasOwnProperty(p, "body") THEN Throw(CouldNotGet("body"))
    ELSE IF positiveIdError(p, "mergeRequestIid") # ""
    THEN Throw(positiveIdError(p, "mergeRequestIid"))
    ELSE Request("PUT", noteEndpoint(base, p["mergeRequestIid"], p["noteId"]),
                 "body" :> p["body"], EmptyObject, FALSE)

\* a slip: both flags are always written, false when they are off
getChangesWritesFalse(p, base) ==
    IF positiveIdError(p, "mergeRequestIid") # ""
    THEN Throw(positiveIdError(p, "mergeRequestIid"))
    ELSE Request("GET", mergeRequestEndpoint(base, p["mergeRequestIid"]) \o "/changes",
                 EmptyObject,
                 ("access_raw_diffs" :> getNodeParameter(p, "accessRawDiffs", FALSE))
                 @@ ("unidiff" :> getNodeParameter(p, "unidiff", FALSE)),
                 FALSE)

getChanges(p, base) ==
    IF positiveIdError(p, "mergeRequestIid") # ""
    THEN Throw(positiveIdError(p, "mergeRequestIid"))
    ELSE Request("GET", mergeRequestEndpoint(base, p["mergeRequestIid"]) \o "/changes",
                 EmptyObject,
                 (IF getNodeParameter(p, "accessRawDiffs", FALSE)
                  THEN "access_raw_diffs" :> TRUE ELSE EmptyObject)
                 @@ (IF getNodeParameter(p, "unidiff", FALSE)
                     THEN "unidiff" :> TRUE ELSE EmptyObject),
                 FALSE)

getDiscussions(p, base) ==
    IF positiveIdError(p, "mergeRequestIid") # ""
    THEN Throw(positiveIdError(p, "mergeRequestIid"))
    ELSE listRequest(p, mergeRequestEndpoint(base, p["mergeRequestIid"]) \o "/discussions")

\* lines 219-224, getDiscussion: iid, then discussionId, nothing else
discussionRequest(method, p, base) ==
    IF positiveIdError(p, "mergeRequestIid") # ""
    THEN Throw(positiveIdError(p, "mergeRequestIid"))
    ELSE IF ~hasOwnProperty(p, "discussionId") THEN Throw(CouldNotGet("discussionId"))
    ELSE Request(method,
                 discussionEndpoint(base, p["mergeRequestIid"], p["discussionId"]),
                 EmptyObject, EmptyObject, FALSE)

getDiscussion(p, base) == discussionRequest("GET", p, base)

\* lines 235-240, the branch of deleteDiscussion
deleteDiscussion(p, base) ==
    IF positiveIdError(p, "mergeRequestIid") # ""
    THEN Throw(positiveIdError(p, "mergeRequestIid"))
    ELSE IF ~hasOwnProperty(p, "discussionId") THEN Throw(CouldNotGet("discussionId"))
    ELSE Request("DELETE",
                 base \o "/merge_requests/" \o ToString(p["mergeRequestIid"])
                      \o "/discussions/" \o p["discussionId"],
                 EmptyObject, EmptyObject, FALSE)

\* lines 225-234, the branch of updateDiscussion
updateDiscussion(p, base) ==
    IF positiveIdError(p, "mergeRequestIid") # ""
    THEN Throw(positiveIdError(p, "mergeRequestIid"))
    ELSE IF ~hasOwnProperty(p, "discussionId") THEN Throw(CouldNotGet("discussionId"))
    ELSE Request("PUT",
                 discussionEndpoint(base, p["mergeRequestIid"], p["discussionId"]),
                 IF getNodeParameter(p, "resolved", "none") # "none"
                 THEN "resolved" :> (getNodeParameter(p, "resolved", "none") = "true")
                 ELSE EmptyObject,
                 EmptyObject, FALSE)

\* a slip: resolved is written for every choice, false for "none"
resolveDiscussionAlwaysWritesResolved(p, base) ==
    IF positiveIdError(p, "mergeRequestIid") # ""
    THEN Throw(positiveIdError(p, "mergeRequestIid"))
    ELSE IF ~hasOwnProperty(p, "discussionId") THEN Throw(CouldNotGet("discussionId"))
    ELSE Request("PUT",
                 base \o "/merge_requests/" \o ToString(p["mergeRequestIid"])
                      \o "/discussions/" \o p["discussionId"],
                 "resolved" :> (getNodeParameter(p, "resolved", "none") = "true"),
                 EmptyObject, FALSE)

\* lines 263-272, the branch of resolveDiscussion, written out from its own
\* statements
resolveDiscussion(p, base) ==
    IF positiveIdError(p, "mergeRequestIid") # ""
    THEN Throw(positiveIdError(p, "mergeRequestIid"))
    ELSE IF ~hasOwnProperty(p, "discussionId") THEN Throw(CouldNotGet("discussionId"))
    ELSE Request("PUT",
                 base \o "/merge_requests/" \o ToString(p["mergeRequestIid"])
                      \o "/discussions/" \o p["discussionId"],
                 IF getNodeParameter(p, "resolved", "none") # "none"
                 THEN "resolved" :> (getNodeParameter(p, "resolved", "none") = "true")
                 ELSE EmptyObject,
                 EmptyObject, FALSE)

\* lines 241-247, getNote: iid, then noteId
noteRequest(method, p, base) ==
    IF positiveIdError(p, "mergeRequestIid") # ""
    THEN Throw(positiveIdError(p, "mergeRequestIid"))
    ELSE IF positiveIdError(p, "noteId") # "" THEN Throw(positiveIdError(p, "noteId"))
    ELSE Request(method, noteEndpoint(base, p["mergeRequestIid"], p["noteId"]),
                 EmptyObject, EmptyObject, FALSE)

getNote(p, base) == noteRequest("GET", p, base)

\* lines 248-254, the branch of deleteNote
deleteNote(p, base) ==
    IF positiveIdError(p, "mergeRequestIid") # ""
    THEN Throw(positiveIdError(p, "mergeRequestIid"))
    ELSE IF positiveIdError(p, "noteId") # "" THEN Throw(positiveIdError(p, "noteId"))
    ELSE Request("DELETE",
                 base \o "/merge_requests/" \o ToString(p["mergeRequestIid"])
                      \o "/notes/" \o ToString(p["noteId"]),
                 EmptyObject, EmptyObject, FALSE)

\* a slip: the path stops at the discussion, which is deleted whole
deleteDiscussionNoteDeletesDiscussion(p, base) ==
    IF positiveIdError(p, "mergeRequestIid") # ""
    THEN Throw(positiveIdError(p, "mergeRequestIid"))
    ELSE IF ~hasOwnProperty(p, "discussionId") THEN Throw(CouldNotGet("discussionId"))
    ELSE IF positiveIdError(p, "noteId") # "" THEN Throw(positiveIdError(p, "noteId"))
    ELSE Request("DELETE",
                 base \o "/merge_requests/" \o ToString(p["mergeRequestIid"])
                      \o "/discussions/" \o p["discussionId"],
                 EmptyObject, EmptyObject, FALSE)

\* lines 255-262, the branch of deleteDiscussionNote
deleteDiscussionNote(p, base) ==
    IF positiveIdError(p, "mergeRequestIid") # ""
    THEN Throw(positiveIdError(p, "mergeRequestIid"))
    ELSE IF ~hasOwnProperty(p, "discussionId") THEN Throw(CouldNotGet("discussionId"))
    ELSE IF positiveIdError(p, "noteId") # "" THEN Throw(positiveIdError(p, "noteId"))
    ELSE Request("DELETE",
                 base \o "/merge_requests/" \o ToString(p["mergeRequestIid"])
                      \o "/discussions/" \o p["discussionId"]
                      \o "/notes/" \o ToString(p["noteId"]),
                 EmptyObject, EmptyObject, FALSE)

\* a slip: squash is always written, false for the other strategies
mergeWritesSquashFalse(p, base) ==
    IF positiveIdError(p, "mergeRequestIid") # ""
    THEN Throw(positiveIdError(p, "mergeRequestIid"))
    ELSE Request("PUT", mergeRequestEndpoint(base, p["mergeRequestIid"]) \o "/merge",
                 (IF getNodeParameter(p, "mergeCommitMessage", "") # ""
                  THEN "merge_commit_message" :> p["mergeCommitMessage"]
                  ELSE EmptyObject)
                 @@ ("squash" :> (getNodeParameter(p, "mergeStrategy", "merge") = "squash")),
                 EmptyObject, FALSE)

merge(p, base) ==
    IF positiveIdError(p, "mergeRequestIid") # ""
    THEN Throw(positiveIdError(p, "mergeRequestIid"))
    ELSE Request("PUT", mergeRequestEndpoint(base, p["mergeRequestIid"]) \o "/merge",
                 (IF getNodeParameter(p, "mergeCommitMessage", "") # ""
                  THEN "merge_commit_message" :> p["mergeCommitMessage"]
                  ELSE EmptyObject)
                 @@ (IF getNodeParameter(p, "mergeStrategy", "merge") = "squash"
                     THEN "squash" :> TRUE ELSE EmptyObject),
                 EmptyObject, FALSE)

\* a slip: skip_ci is always written, false when the flag is off
rebaseWritesSkipCiFalse(p, base) ==
    IF positiveIdError(p, "mergeRequestIid") # ""
    THEN Throw(positiveIdError(p, "mergeRequestIid"))
    ELSE Request("PUT", mergeRequestEndpoint(base, p["mergeRequestIid"]) \o "/rebase",
                 EmptyObject,
                 "skip_ci" :> getNodeParameter(p, "skipCi", FALSE),
                 FALSE)

rebase(p, base) ==
    IF positiveIdError(p, "mergeRequestIid") # ""
    THEN Throw(positiveIdError(p, "mergeRequestIid"))
    ELSE Request("PUT", mergeRequestEndpoint(base, p["mergeRequestIid"]) \o "/rebase",
                 EmptyObject,
                 IF getNodeParameter(p, "skipCi", FALSE)
                 THEN "skip_ci" :> TRUE ELSE EmptyObject,
                 FALSE)

\* a slip: the state event is "close" for both operations
closeOrReopenAlwaysCloses(p, base) ==
    IF positiveIdError(p, "mergeRequestIid") # ""
    THEN Throw(positiveIdError(p, "mergeRequestIid"))
    ELSE Request("PUT", mergeRequestEndpoint(base, p["mergeRequestIid"]),
                 "state_event" :> "close", EmptyObject, FALSE)

closeOrReopen(p, base) ==
    IF positiveIdError(p, "mergeRequestIid") # ""
    THEN Throw(positiveIdError(p, "mergeRequestIid"))
    ELSE Request("PUT", mergeRequestEndpoint(base, p["mergeRequestIid"]),
                 "state_event" :> (IF p["operation"] = "close" THEN "close" ELSE "reopen"),
                 EmptyObject, FALSE)

\* a slip: the labels are written under both keys
labelsWritesBoth(p, base) ==
    IF positiveIdError(p, "mergeRequestIid") # ""
    THEN Throw(positiveIdError(p, "mergeRequestIid"))
    ELSE IF firstMissing(p, <<"labelAction", "labels">>) # ""
    THEN Throw(CouldNotGet(firstMissing(p, <<"labelAction", "labels">>)))
    ELSE Request("PUT", mergeRequestEndpoint(base, p["mergeRequestIid"]),
                 IF p["labelAction"] = "add" THEN "add_labels" :> p["labels"]
                 ELSE ("add_labels" :> p["labels"]) @@ ("remove_labels" :> p["labels"]),
                 EmptyObject, FALSE)

labels(p, base) ==
    IF positiveIdError(p, "mergeRequestIid") # ""
    THEN Throw(positiveIdError(p, "mergeRequestIid"))
    ELSE IF firstMissing(p, <<"labelAction", "labels">>) # ""
    THEN Throw(CouldNotGet(firstMissing(p, <<"labelAction", "labels">>)))
    ELSE Request("PUT", mergeRequestEndpoint(base, p["mergeRequestIid"]),
                 IF p["labelAction"] = "add" THEN "add_labels" :> p["labels"]
                 ELSE "remove_labels" :> p["labels"],
                 EmptyObject, FALSE)

(***************************************************************************)
(* handleMergeRequest(itemIndex) up to its Executor call: the request it   *)
(* builds for the item's parameters, or the error it throws.               *)
(***************************************************************************)
UnsupportedMessage(op) == "The operation \"" \o op \o "\" is not supported."

handleMergeRequest(p) ==
    IF ~hasOwnProperty(p, "operation") THEN Throw(CouldNotGet("operation"))
    ELSE IF p["operation"] = "create" THEN create(p, Base)
    ELSE IF p["operation"] = "get" THEN get(p, Base)
    ELSE IF p["operation"] = "getAll" THEN getAll(p, Base)
    ELSE IF p["operation"] = "createNote" THEN createNote(p, Base)
    ELSE IF p["operation"] = "postDiscussionNote" THEN postDiscussionNote(p, Base)
    ELSE IF p["operation"] = "updateNote" THEN updateNote(p, Base)
    ELSE IF p["operation"] = "updateDiscussionNote" THEN updateDiscussionNote(p, Base)
    ELSE IF p["operation"] = "getChanges" THEN getChanges(p, Base)
    ELSE IF p["operation"] = "getDiscussions" THEN getDiscussions(p, Base)
    ELSE IF p["operation"] = "getDiscussion" THEN getDiscussion(p, Base)
    ELSE IF p["operation"] = "updateDiscussion" THEN updateDiscussion(p, Base)
    ELSE IF p["operation"] = "deleteDiscussion" THEN deleteDiscussion(p, Base)
    ELSE IF p["operation"] = "getNote" THEN getNote(p, Base)
    ELSE IF p["operation"] = "deleteNote" THEN deleteNote(p, Base)
    ELSE IF p["operation"] = "deleteDiscussionNote" THEN deleteDiscussionNote(p, Base)
    ELSE IF p["operation"] = "resolveDiscussion" THEN resolveDiscussion(p, Base)
    ELSE IF p["operation"] = "merge" THEN merge(p, Base)
    ELSE IF p["operation"] = "rebase" THEN rebase(p, Base)
    ELSE IF p["operation"] = "close" \/ p["operation"] = "reopen" THEN closeOrReopen(p, Base)
    ELSE IF p["operation"] = "labels" THEN labels(p, Base)
    ELSE Throw(UnsupportedMessage(p["operation"]))

(***************************************************************************)
(* GitlabExtended.execute.                                                 *)
(***************************************************************************)
UnknownResourceMessage(res) == "Unknown resource: " \o res

\* lines 1239-1243: the request a branch starts from, and ends with when none
\* of its operation tests matches
initialRequest == Request("GET", "", EmptyObject, EmptyObject, FALSE)

\* encodeURIComponent over the tag names of the model: "/" is escaped, names
\* of unreserved characters are unchanged
encodeURIComponent(s) == IF s = "rel/1" THEN "rel%2F1" ELSE s

\* JSON.parse over the assets texts of the model: "{}" parses, to the empty
\* object, nothing else does
jsonParses(text) == text = "{}"
jsonParse(text) == EmptyObject

tagEndpoint(base, tagName) == base \o "/repository/tags/" \o encodeURIComponent(tagName)

\* lines 1253-1274
tag(op, p, base) ==
    IF op = "create"
    THEN IF firstMissing(p, <<"tagName", "ref">>) # ""
         THEN Throw(CouldNotGet(firstMissing(p, <<"tagName", "ref">>)))
         ELSE Request("POST", base \o "/repository/tags",
                      [tag_name |-> p["tagName"], ref |-> p["ref"]]
                      @@ (IF getNodeParameter(p, "message", "") # ""
                          THEN "message" :> p["message"] ELSE EmptyObject),
                      EmptyObject, FALSE)
    ELSE IF op = "get" \/ op = "delete"
    THEN IF ~hasOwnProperty(p, "tagName") THEN Throw(CouldNotGet("tagName"))
         ELSE Request(IF op = "get" THEN "GET" ELSE "DELETE",
                      tagEndpoint(base, p["tagName"]), EmptyObject, EmptyObject, FALSE)
    ELSE IF op = "getAll" THEN listRequest(p, base \o "/repository/tags")
    ELSE initialRequest

InvalidAssetsMessage == "Invalid JSON in 'assets' parameter"
EmptyTagNameMessage == "tagName must not be empty"
releaseEndpoint(base, tagName) == base \o "/releases/" \o encodeURIComponent(tagName)

\* name, description and assets of release create / update
releaseBody(p) ==
    ("name" :> p["name"])
    @@ addOptionalStringParam(p, "releaseDescription", "description")
    @@ (IF getNodeParameter(p, "assets", "") # ""
        THEN "assets" :> jsonParse(p["assets"]) ELSE EmptyObject)

assetsUnparsable(p) ==
    getNodeParameter(p, "assets", "") # "" /\ ~jsonParses(p["assets"])

\* lines 1275-1326
release(op, p, base) ==
    IF op = "create"
    THEN IF ~hasOwnProperty(p, "tagName") THEN Throw(CouldNotGet("tagName"))
         ELSE IF p["tagName"] = "" THEN Throw(EmptyTagNameMessage)
         ELSE IF ~hasOwnProperty(p, "name") THEN Throw(CouldNotGet("name"))
         ELSE IF assetsUnparsable(p) THEN Throw(InvalidAssetsMessage)
         ELSE Request("POST", base \o "/releases",
                      ("tag_name" :> p["tagName"]) @@ releaseBody(p), EmptyObject, FALSE)
    ELSE IF op = "update"
    THEN IF firstMissing(p, <<"tagName", "name">>) # ""
         THEN Throw(CouldNotGet(firstMissing(p, <<"tagName", "name">>)))
         ELSE IF assetsUnparsable(p) THEN Throw(InvalidAssetsMessage)
         ELSE Request("PUT", releaseEndpoint(base, p["tagName"]), releaseBody(p),
                      EmptyObject, FALSE)
    ELSE IF op = "get" \/ op = "delete"
    THEN IF ~hasOwnProperty(p, "tagName") THEN Throw(CouldNotGet("tagName"))
         ELSE Request(IF op = "get" THEN "GET" ELSE "DELETE",
                      releaseEndpoint(base, p["tagName"]), EmptyObject, EmptyObject, FALSE)
    ELSE IF op = "getAll" THEN listRequest(p, base \o "/releases")
    ELSE initialRequest

\* lines 1327-1352
group(op, p) ==
    IF op = "create"
    THEN IF firstMissing(p, <<"groupName", "groupPath">>) # ""
         THEN Throw(CouldNotGet(firstMissing(p, <<"groupName", "groupPath">>)))
         ELSE Request("POST", "/groups",
                      [name |-> p["groupName"], path |-> p["groupPath"]]
                      @@ (IF getNodeParameter(p, "parentId", 0) # 0
                          THEN "parent_id" :> p["parentId"] ELSE EmptyObject),
                      EmptyObject, FALSE)
    ELSE IF op = "get" \/ op = "delete" \/ op = "getMembers"
    THEN IF positiveIdError(p, "groupId") # "" THEN Throw(positiveIdError(p, "groupId"))
         ELSE IF op = "getMembers"
         THEN listRequest(p, "/groups/" \o ToString(p["groupId"]) \o "/members")
         ELSE Request(IF op = "get" THEN "GET" ELSE "DELETE",
                      "/groups/" \o ToString(p["groupId"]), EmptyObject, EmptyObject, FALSE)
    ELSE initialRequest

\* lines 1366-1373: the list request, with qs.search added for search
projectList(op, p) ==
    IF listRequest(p, "/projects").kind = "error" \/ op # "search"
    THEN listRequest(p, "/projects")
    ELSE IF ~hasOwnProperty(p, "searchTerm") THEN Throw(CouldNotGet("searchTerm"))
    ELSE [listRequest(p, "/projects") EXCEPT !.qs = @ @@ ("search" :> p["searchTerm"])]

\* lines 1353-1374
project(op, p) ==
    IF op = "create"
    THEN IF firstMissing(p, <<"projectName", "projectPath">>) # ""
         THEN Throw(CouldNotGet(firstMissing(p, <<"projectName", "projectPath">>)))
         ELSE Request("POST", "/projects",
                      [name |-> p["projectName"], path |-> p["projectPath"]]
                      @@ (IF getNodeParameter(p, "namespaceId", 0) # 0
                          THEN "namespace_id" :> p["namespaceId"] ELSE EmptyObject),
                      EmptyObject, FALSE)
    ELSE IF op = "get"
    THEN IF positiveIdError(p, "projectId") # ""
         THEN Throw(positiveIdError(p, "projectId"))
         ELSE Request("GET", "/projects/" \o ToString(p["projectId"]),
                      EmptyObject, EmptyObject, FALSE)
    ELSE IF op = "getAll" \/ op = "search" THEN projectList(op, p)
    ELSE initialRequest

\* title, description and labels of issue create / update
issueBody(p) ==
    ("title" :> p["title"])
    @@ addOptionalStringParam(p, "description", "description")
    @@ (IF getNodeParameter(p, "issueLabels", "") # ""
        THEN "labels" :> p["issueLabels"] ELSE EmptyObject)

issueEndpoint(base, id) == base \o "/issues/" \o ToString(id)

\* lines 1379-1415
issue(op, p, base) ==
    IF op = "create"
    THEN IF ~hasOwnProperty(p, "title") THEN Throw(CouldNotGet("title"))
         ELSE Request("POST", base \o "/issues", issueBody(p), EmptyObject, FALSE)
    ELSE IF op = "getAll" THEN listRequest(p, base \o "/issues")
    ELSE IF op \in {"get", "update", "close", "reopen"}
    THEN IF positiveIdError(p, "issueIid") # ""
         THEN Throw(positiveIdError(p, "issueIid"))
         ELSE IF op = "get"
         THEN Request("GET", issueEndpoint(base, p["issueIid"]),
                      EmptyObject, EmptyObject, FALSE)
         ELSE IF op = "update"
         THEN IF ~hasOwnProperty(p, "title") THEN Throw(CouldNotGet("title"))
              ELSE Request("PUT", issueEndpoint(base, p["issueIid"]),
                           issueBody(p)
                           @@ (IF hasOwnProperty(p, "issueState")
                               THEN "state_event" :> p["issueState"] ELSE EmptyObject),
                           EmptyObject, FALSE)
         ELSE Request("PUT", issueEndpoint(base, p["issueIid"]),
                      "state_event" :> (IF op = "close" THEN "close" ELSE "reopen"),
                      EmptyObject, FALSE)
    ELSE initialRequest

\* lines 1420-1426
raw(op, p) ==
    IF op = "request"
    THEN IF firstMissing(p, <<"httpMethod", "endpoint">>) # ""
         THEN Throw(CouldNotGet(firstMissing(p, <<"httpMethod", "endpoint">>)))
         ELSE Request(p["httpMethod"], p["endpoint"],
                      getNodeParameter(p, "content", EmptyObject),
                      getNodeParameter(p, "queryParameters", EmptyObject), FALSE)
    ELSE initialRequest

\* the resources execute hands to handlers of their own
HandlerResources == {"branch", "pipeline", "file", "mergeRequest"}

\* lines 1253-1431: the request execute itself builds for item p, from the
\* resource and the operation read at index 0.  (handleBranch, handlePipeline
\* and handleFile are other modules: no item of the model is handed to them.
\* The credential of every item resolves and is valid.)
executeItem(res, op, p) ==
    IF res = "tag" THEN tag(op, p, Base)
    ELSE IF res = "release" THEN release(op, p, Base)
    ELSE IF res = "group" THEN group(op, p)
    ELSE IF res = "project" THEN project(op, p)
    ELSE IF res = "issue" THEN issue(op, p, Base)
    ELSE IF res = "raw" THEN raw(op, p)
    ELSE Throw(UnknownResourceMessage(res))

\* constructExecutionMetaData(returnJsonArray(response), {itemData: {item: i}})
executionData(item, n) == [k \in 1..n |-> [item |-> item, entry |-> k]]

(***************************************************************************)
(* The two Executors, gitlabApiRequest and gitlabApiRequestAllItems, as    *)
(* far as the HTTP calls they make.  A call is logged in http with the     *)
(* next-page signal the paginating Executor read from its answer (Null     *)
(* while unanswered, and for the single-page Executor, which reads none).  *)
(***************************************************************************)
PageSize == 100
NoNextPage == {""}

\* gitlabApiRequest: one call, the query as built
httpCall(item, r) ==
    [item |-> item, method |-> r.method, endpoint |-> r.endpoint, body |-> r.body,
     qs |-> r.qs, nextPage |-> Null]

\* gitlabApiRequestAllItems: the call for one page, per_page 100 and the page
\* index written into the query
pageQuery(qs, page) == ("per_page" :> PageSize) @@ ("page" :> page) @@ qs
pageCall(item, r, page) ==
    [item |-> item, method |-> r.method, endpoint |-> r.endpoint, body |-> r.body,
     qs |-> pageQuery(r.qs, page), nextPage |-> Null]
pageOf(call) == call.qs["page"]

\* a slip: the single-page Executor is called whatever returnAll is
ExecutorAlwaysSinglePage(item, r) == httpCall(item, r)

\* returnAll ? gitlabApiRequestAllItems(...) : gitlabApiRequest(...), up to the
\* first HTTP call
Executor(item, r) == IF r.returnAll THEN pageCall(item, r, 1) ELSE httpCall(item, r)

\* what the Executor of request r can read as next-page signal from the
\* answer to call number last of the log: nothing (single page), the empty
\* signal, or the index of the page after this one
nextPageSignals(r, last) ==
    IF ~r.returnAll THEN {Null}
    ELSE {NoNextPage}
         \cup (IF pageOf(http[last]) < MaxPages
               THEN {{ToString(pageOf(http[last]) + 1)}} ELSE {})
answered(log, signal) == [log EXCEPT ![Len(log)].nextPage = signal]

\* lines 1226-1232: operation and resource are read once, at index 0
Start ==
    /\ pc = "start"
    /\ IF hasOwnProperty(items[1], "operation") /\ hasOwnProperty(items[1], "resource")
       THEN /\ operation' = items[1]["operation"]
            /\ resource' = items[1]["resource"]
            /\ pc' = "auth"
            /\ error' = error
       ELSE /\ pc' = "failed"
            /\ error' = Thrown("start", 1,
                               IF hasOwnProperty(items[1], "operation")
                               THEN CouldNotGet("resource")
                               ELSE CouldNotGet("operation"))
            /\ UNCHANGED <<operation, resource>>
    /\ UNCHANGED <<items, i, inflight, sent, http, returnData>>

\* lines 1231-1232: the awaited resolveCredential(0) resolves
Authorize ==
    /\ pc = "auth"
    /\ pc' = "loop"
    /\ UNCHANGED <<items, i, operation, resource, inflight, sent, http, returnData, error>>

\* a slip: the next item is started while the request of item i is in flight
LoopCredentialWithoutWaiting ==
    /\ pc \in {"loop", "await"}
    /\ IF pc = "await" THEN i < Len(items) /\ i' = i + 1
       ELSE i <= Len(items) /\ i' = i
    /\ pc' = "credential"
    /\ UNCHANGED <<items, operation, resource, inflight, sent, http, returnData, error>>

\* lines 1234-1235: the loop goes on to item i and awaits its credential
LoopCredential ==
    /\ pc = "loop"
    /\ i <= Len(items)
    /\ pc' = "credential"
    /\ UNCHANGED <<items, i, operation, resource, inflight, sent, http, returnData, error>>

\* lines 1235-1431, the credential of item i resolved.  mergeRequest: the
\* handler is called, reads its operation at index i and awaits the credential
\* again (mergeRequest.ts lines 22-23).  The resources execute builds itself:
\* a request handed to the Executor, or a throw.
Dispatch ==
    /\ pc = "credential"
    /\ resource \notin HandlerResources \ {"mergeRequest"}
    /\ IF resource = "mergeRequest"
       THEN /\ IF hasOwnProperty(items[i], "operation")
               THEN pc' = "handler" /\ error' = error
               ELSE pc' = "failed" /\ error' = Thrown("build", i, CouldNotGet("operation"))
            /\ UNCHANGED <<inflight, sent, http>>
       ELSE LET r == executeItem(resource, operation, items[i]) IN
              IF r.kind = "error"
              THEN /\ pc' = "failed"
                   /\ error' = Thrown("build", i, r.message)
                   /\ UNCHANGED <<inflight, sent, http>>
              ELSE /\ pc' = "await"
                   /\ inflight' = r
                   /\ sent' = Append(sent, [item |-> i, request |-> r])
                   /\ http' = Append(http, Executor(i, r))
                   /\ error' = error
    /\ UNCHANGED <<items, i, operation, resource, returnData>>

\* a slip: the request under construction is sent before the throw
BuildSendsThenThrows ==
    /\ pc = "handler"
    /\ LET r == handleMergeRequest(items[i]) IN
         IF r.kind = "error"
         THEN /\ pc' = "failed"
              /\ error' = Thrown("build", i, r.message)
              /\ inflight' = inflight
              /\ sent' = Append(sent, [item |-> i, request |-> initialRequest])
              /\ http' = Append(http, Executor(i, initialRequest))
         ELSE /\ pc' = "await"
              /\ inflight' = r
              /\ sent' = Append(sent, [item |-> i, request |-> r])
              /\ http' = Append(http, Executor(i, r))
              /\ error' = error
    /\ UNCHANGED <<items, i, operation, resource, returnData>>

\* handleMergeRequest after its credential resolved, the build phase of item
\* i: a request handed to the Executor, or a throw
Build ==
    /\ pc = "handler"
    /\ LET r == handleMergeRequest(items[i]) IN
         IF r.kind = "error"
         THEN /\ pc' = "failed"
              /\ error' = Thrown("build", i, r.message)
              /\ UNCHANGED <<inflight, sent, http>>
         ELSE /\ pc' = "await"
              /\ inflight' = r
              /\ sent' = Append(sent, [item |-> i, request |-> r])
              /\ http' = Append(http, Executor(i, r))
              /\ error' = error
    /\ UNCHANGED <<items, i, operation, resource, returnData>>

\* a slip: the entries of the response are put in front of returnData
RespondPrepends ==
    /\ pc = "await"
    /\ \E n \in 0..MaxResp, signal \in nextPageSignals(inflight, Len(http)) :
         IF signal \in {Null, NoNextPage}
         THEN /\ returnData' = executionData(i, n) \o returnData
              /\ http' = answered(http, signal)
              /\ i' = i + 1
              /\ pc' = "loop"
              /\ inflight' = NoRequest
         ELSE /\ http' = Append(answered(http, signal),
                                pageCall(i, inflight, pageOf(http[Len(http)]) + 1))
              /\ UNCHANGED <<returnData, i, pc, inflight>>
    /\ UNCHANGED <<items, operation, resource, sent, error>>

\* the HTTP call in flight is answered.  The single-page Executor returns the
\* response.  The paginating Executor reads the next-page signal: it asks for
\* the next page, or returns what the pages held.  When the Executor returns,
\* its n entries are wrapped and pushed and the loop goes on.
Respond ==
    /\ pc = "await"
    /\ \E n \in 0..MaxResp, signal \in nextPageSignals(inflight, Len(http)) :
         IF signal \in {Null, NoNextPage}
         THEN /\ returnData' = returnData \o executionData(i, n)
              /\ http' = answered(http, signal)
              /\ i' = i + 1
              /\ pc' = "loop"
              /\ inflight' = NoRequest
         ELSE /\ http' = Append(answered(http, signal),
                                pageCall(i, inflight, pageOf(http[Len(http)]) + 1))
              /\ UNCHANGED <<returnData, i, pc, inflight>>
    /\ UNCHANGED <<items, operation, resource, sent, error>>

\* a slip: a rejected request is noted and the loop goes on to the next item
ExecutorThrowsContinues ==
    /\ pc = "await"
    /\ pc' = "loop"
    /\ i' = i + 1
    /\ error' = Thrown("executor", i, "request failed")
    /\ inflight' = NoRequest
    /\ UNCHANGED <<items, operation, resource, sent, http, returnData>>

\* the Executor rejects: the error leaves execute
ExecutorThrows ==
    /\ pc = "await"
    /\ pc' = "failed"
    /\ error' = Thrown("executor", i, "request failed")
    /\ inflight' = NoRequest
    /\ UNCHANGED <<items, i, operation, resource, sent, http, returnData>>

\* line 1444: return [returnData]
Return ==
    /\ pc = "loop"
    /\ i > Len(items)
    /\ pc' = "done"
    /\ UNCHANGED <<items, i, operation, resource, inflight, sent, http, returnData, error>>

Next ==
    \/ Start \/ Authorize \/ LoopCredential \/ Dispatch \/ Build
    \/ Respond \/ ExecutorThrows \/ Return

InitWith(inputs) ==
    /\ items \in inputs
    /\ pc = "start"
    /\ i = 1
    /\ operation = ""
    /\ resource = ""
    /\ inflight = NoRequest
    /\ sent = <<>>
    /\ http = <<>>
    /\ returnData = <<>>
    /\ error = NoError

(***************************************************************************)
(* Inputs.  Req: a parameter the node declares for the operation, always   *)
(* in the parameter object.  Opt: one that may be missing from it, because *)
(* the code reads it with a default or because its declaration can hide it *)
(* (discussionId, hidden when startDiscussion is on).                      *)
(***************************************************************************)
Opt(name, values) == {EmptyObject} \cup {name :> v : v \in values}
Req(name, values) == {name :> v : v \in values}
Nums(lo, hi) == {Num(n) : n \in lo..hi}

IidInputs == Req("mergeRequestIid", 0..MaxIid)

LocationInputs ==
    {a @@ b @@ c @@ d @@ e :
        a \in Opt("newPath", {"", "a.ts"}), b \in Req("oldPath", {"", "a.ts"}),
        c \in Req("baseSha", {"", "111"}), d \in Req("headSha", {"", "222"}),
        e \in Req("startSha", {"", "333"})}

FullLineRange ==
    [lineRangeStartLineCode |-> "code1", lineRangeStartType |-> "new",
     lineRangeEndLineCode |-> "code2", lineRangeEndType |-> "old"]

PostInputs ==
    {[resource |-> "mergeRequest", operation |-> "postDiscussionNote"]
        @@ a @@ b @@ c @@ d @@ e @@ f @@ g @@ h @@ k :
        a \in IidInputs, b \in Req("body", {"hello"}),
        c \in Opt("startDiscussion", BOOLEAN), d \in Opt("discussionId", {"", "d5"}),
        e \in LocationInputs, f \in Opt("newLine", Nums(0, MaxLine)),
        g \in Opt("oldLine", Nums(-1, MaxLine)), h \in Opt("positionType", {"image"}),
        k \in {EmptyObject, FullLineRange}}

UpdateInputs ==
    {[resource |-> "mergeRequest", operation |-> "updateDiscussionNote"]
        @@ a @@ b @@ c @@ d @@ e :
        a \in IidInputs, b \in Req("discussionId", {"", "d5"}),
        c \in Req("noteId", 0..MaxIid), d \in Opt("body", {"", "fix"}),
        e \in Opt("resolved", {"none", "true", "false"})}

LineRangeInputs ==
    {[resource |-> "mergeRequest", operation |-> "postDiscussionNote",
      mergeRequestIid |-> 1, body |-> "multi", startDiscussion |-> TRUE,
      newPath |-> "a.ts", oldPath |-> "a.ts", baseSha |-> "111", headSha |-> "222"]
        @@ a @@ b @@ c @@ d @@ e @@ f @@ g @@ h @@ k :
        a \in Req("startSha", {"", "333"}),
        b \in Opt("lineRangeStartLineCode", {"code1"}),
        c \in Opt("lineRangeStartType", {"new"}),
        d \in Opt("lineRangeEndLineCode", {"code2"}),
        e \in Req("lineRangeEndType", {"", "old"}),
        f \in Opt("lineRangeStartOldLine", Nums(-1, MaxLine)),
        g \in Opt("lineRangeStartNewLine", Nums(-1, MaxLine)),
        h \in Opt("lineRangeEndOldLine", Nums(-1, MaxLine)),
        k \in Opt("lineRangeEndNewLine", Nums(-1, MaxLine))}

InitPost == InitWith({<<p>> : p \in PostInputs})
InitUpdate == InitWith({<<p>> : p \in UpdateInputs})
InitLineRange == InitWith({<<p>> : p \in LineRangeInputs})

SpecPost == InitPost /\ [][Next]_vars
SpecUpdate == InitUpdate /\ [][Next]_vars
SpecLineRange == InitLineRange /\ [][Next]_vars

(***************************************************************************)
(* One item of each merge-request operation, and of an operation the       *)
(* handler does not know.                                                  *)
(***************************************************************************)
MergeRequestItem(op) == [resource |-> "mergeRequest", operation |-> op]
AnyIid == Req("mergeRequestIid", (-1)..MaxIid)
AnyNoteId == Req("noteId", (-1)..MaxIid)
ResolvedInputs == Opt("resolved", {"none", "true", "false"})
\* limit is read only when returnAll is off
ListInputs ==
    {a @@ b : a \in Req("returnAll", {FALSE}), b \in Req("limit", {MaxResp})}
    \cup {a @@ b : a \in Req("returnAll", {TRUE}), b \in Opt("limit", {MaxResp})}

OpsInputs ==
    {MergeRequestItem(op) @@ a :
        op \in {"get", "close", "reopen", "approve"}, a \in AnyIid}
    \cup {MergeRequestItem("create") @@ a @@ b :
        a \in {[source |-> "feature", target |-> "main", title |-> "t"]},
        b \in Opt("description", {"", "text"})}
    \cup {MergeRequestItem("getAll") @@ a : a \in ListInputs}
    \cup {MergeRequestItem("getDiscussions") @@ a @@ b : a \in AnyIid, b \in ListInputs}
    \cup {MergeRequestItem(op) @@ a @@ b @@ c :
        op \in {"createNote", "postDiscussionNote"},
        a \in AnyIid, b \in Req("body", {"hello"}), c \in Req("startDiscussion", {TRUE})}
    \cup {MergeRequestItem(op) @@ a @@ b @@ c :
        op \in {"getNote", "deleteNote", "updateNote"},
        a \in AnyIid, b \in AnyNoteId, c \in Req("body", {"hello"})}
    \cup {MergeRequestItem(op) @@ a @@ b @@ c :
        op \in {"deleteDiscussionNote", "updateDiscussionNote"},
        a \in AnyIid, b \in AnyNoteId, c \in Req("discussionId", {"d5"})}
    \cup {MergeRequestItem(op) @@ a @@ b @@ c :
        op \in {"getDiscussion", "deleteDiscussion", "updateDiscussion",
                "resolveDiscussion"},
        a \in AnyIid, b \in Req("discussionId", {"d5"}), c \in ResolvedInputs}
    \cup {MergeRequestItem("getChanges") @@ a @@ b @@ c :
        a \in AnyIid, b \in Opt("accessRawDiffs", BOOLEAN), c \in Opt("unidiff", BOOLEAN)}
    \cup {MergeRequestItem("merge") @@ a @@ b @@ c :
        a \in AnyIid, b \in Opt("mergeCommitMessage", {"", "msg"}),
        c \in Opt("mergeStrategy", {"merge", "squash"})}
    \cup {MergeRequestItem("rebase") @@ a @@ b : a \in AnyIid, b \in Opt("skipCi", BOOLEAN)}
    \cup {MergeRequestItem("labels") @@ a @@ b @@ c :
        a \in AnyIid, b \in Req("labelAction", {"add", "remove", "replace"}),
        c \in Req("labels", {"bug,urgent"})}

InitOps == InitWith({<<p>> : p \in OpsInputs})
SpecOps == InitOps /\ [][Next]_vars

(***************************************************************************)
(* Batches of up to MaxItems items.  Every item names its own resource and *)
(* operation: valid calls, one call per validation failure, and items of   *)
(* the resources execute builds itself.                                    *)
(***************************************************************************)
GetItem == MergeRequestItem("get") @@ [mergeRequestIid |-> 1]
GetTaggedItem == GetItem @@ [tagName |-> "rel/1"]
NonPositiveIdItem == MergeRequestItem("get") @@ [mergeRequestIid |-> 0]
FullLocation ==
    [newPath |-> "a.ts", oldPath |-> "a.ts", baseSha |-> "111", headSha |-> "222",
     startSha |-> "333"]
NegativeOldLineItem ==
    MergeRequestItem("postDiscussionNote")
    @@ [mergeRequestIid |-> 1, body |-> "hello", startDiscussion |-> TRUE,
        oldLine |-> Num(-1)]
    @@ FullLocation
MissingDiscussionIdItem ==
    MergeRequestItem("postDiscussionNote")
    @@ [mergeRequestIid |-> 1, body |-> "hello", startDiscussion |-> FALSE,
        discussionId |-> ""]
MutuallyExclusiveItem ==
    MergeRequestItem("updateDiscussionNote")
    @@ [mergeRequestIid |-> 1, noteId |-> 1, discussionId |-> "d5", body |-> "fix",
        resolved |-> "true"]
UnsupportedItem == MergeRequestItem("approve") @@ [mergeRequestIid |-> 1]
TagGetItem == [resource |-> "tag", operation |-> "get", tagName |-> "v1"]
TagUnsupportedItem == [resource |-> "tag", operation |-> "approve", tagName |-> "v1"]
RawItem ==
    [resource |-> "raw", operation |-> "request", httpMethod |-> "GET",
     endpoint |-> "/version"]
UnknownResourceItem == [resource |-> "wiki", operation |-> "get"]

BatchItems ==
    {GetItem, GetTaggedItem, NonPositiveIdItem, NegativeOldLineItem,
     MissingDiscussionIdItem, MutuallyExclusiveItem, UnsupportedItem, TagGetItem,
     TagUnsupportedItem, RawItem, UnknownResourceItem}

BatchInputs == UNION {[1..n -> BatchItems] : n \in 1..MaxItems}

InitBatch == InitWith(BatchInputs)
SpecBatch == InitBatch /\ [][Next]_vars

(***************************************************************************)
(* What has happened to item k.                                            *)
(***************************************************************************)
Items == 1..Len(items)
\* the build phase of item k is over
Handled(k) ==
    \/ i > k
    \/ i = k /\ pc = "await"
    \/ i = k /\ pc = "failed" /\ error.at # "start"
\* a request for item k was handed to the Executor
Issued(k) == \E j \in 1..Len(sent) : sent[j].item = k
RequestOf(k) == sent[CHOOSE j \in 1..Len(sent) : sent[j].item = k].request
\* the build phase of item k threw msg
BuildFailed(k) == pc = "failed" /\ error.at = "build" /\ error.item = k
BuildFailedWith(k, msg) == BuildFailed(k) /\ error.message = msg
Supplied(k, name) == hasOwnProperty(items[k], name)
IsOperation(k, op) == Supplied(k, "operation") /\ items[k]["operation"] = op
PositiveParam(k, name) == Supplied(k, name) /\ items[k][name] > 0

(***************************************************************************)
(* updateDiscussionNote.                                                   *)
(***************************************************************************)
UpdateBoth(k) ==
    /\ IsOperation(k, "updateDiscussionNote")
    /\ PositiveParam(k, "mergeRequestIid")
    /\ PositiveParam(k, "noteId")
    /\ getNodeParameter(items[k], "body", "") # ""
    /\ getNodeParameter(items[k], "resolved", "none") # "none"

\* C1: updateDiscussionNote with positive mergeRequestIid and noteId, a
\* non-empty body and a resolved selector other than "none" fails with "body and
\* resolved are mutually exclusive", and no request is handed to the Executor
\* for that item.
C1_MutuallyExclusive ==
    \A k \in Items :
        UpdateBoth(k) /\ Handled(k)
            => BuildFailedWith(k, MutuallyExclusiveMessage) /\ ~Issued(k)

C1_Witness ==
    \E k \in Items :
        /\ UpdateBoth(k)
        /\ items[k]["resolved"] = "false"
        /\ BuildFailedWith(k, MutuallyExclusiveMessage)
        /\ sent = <<>>

UpdateValidIds(k) ==
    /\ IsOperation(k, "updateDiscussionNote")
    /\ PositiveParam(k, "mergeRequestIid")
    /\ PositiveParam(k, "noteId")
    /\ Supplied(k, "discussionId")
UpdateBodyText(k) == getNodeParameter(items[k], "body", "")
UpdateResolvedChoice(k) == getNodeParameter(items[k], "resolved", "none")
UpdatePath(k) ==
    Base \o "/merge_requests/" \o ToString(items[k]["mergeRequestIid"])
         \o "/discussions/" \o items[k]["discussionId"]
         \o "/notes/" \o ToString(items[k]["noteId"])

\* C10: updateDiscussionNote with valid ids and not both inputs issues a PUT to
\* {base}/merge_requests/{iid}/discussions/{discussionId}/notes/{noteId} whose
\* body is exactly {body: text} when only a non-empty body is given, exactly
\* {resolved: b}, b the boolean the selector names, when only a selector other
\* than "none" is given, and exactly {} when neither is given.
C10_UpdateBody ==
    \A k \in Items :
        /\ UpdateValidIds(k) /\ Handled(k)
        /\ ~(UpdateBodyText(k) # "" /\ UpdateResolvedChoice(k) # "none")
        => /\ Issued(k)
           /\ RequestOf(k).method = "PUT"
           /\ RequestOf(k).endpoint = UpdatePath(k)
           /\ RequestOf(k).body =
                IF UpdateBodyText(k) # "" THEN [body |-> UpdateBodyText(k)]
                ELSE IF UpdateResolvedChoice(k) = "true" THEN [resolved |-> {TRUE}]
                ELSE IF UpdateResolvedChoice(k) = "false" THEN [resolved |-> {FALSE}]
                ELSE EmptyObject

\* a request with body {resolved: false}, and one with the empty body
C10_Witness ==
    \E k \in Items :
        /\ UpdateValidIds(k) /\ Issued(k)
        /\ UpdateResolvedChoice(k) = "false"
        /\ RequestOf(k).body = [resolved |-> {FALSE}]

C10_WitnessEmpty ==
    \E k \in Items :
        /\ UpdateValidIds(k) /\ Issued(k) /\ RequestOf(k).body = EmptyObject

(***************************************************************************)
(* postDiscussionNote.                                                     *)
(***************************************************************************)
Post(k) == IsOperation(k, "postDiscussionNote")
Str(k, name) == getNodeParameter(items[k], name, "")
Line(k, name) == getNodeParameter(items[k], name, Null)
\* all five location fields are non-empty
AllFive(k) ==
    /\ Str(k, "newPath") # "" /\ Str(k, "oldPath") # "" /\ Str(k, "baseSha") # ""
    /\ Str(k, "headSha") # "" /\ Str(k, "startSha") # ""
\* all four line-range fields are non-empty
AllFour(k) ==
    /\ Str(k, "lineRangeStartLineCode") # "" /\ Str(k, "lineRangeStartType") # ""
    /\ Str(k, "lineRangeEndLineCode") # "" /\ Str(k, "lineRangeEndType") # ""
OldLineNegative(k) == \E n \in Line(k, "oldLine") : n < 0
StartsDiscussion(k) == getNodeParameter(items[k], "startDiscussion", FALSE)
\* the checks that come before the position is looked at
PostEarlyGates(k) == PositiveParam(k, "mergeRequestIid")
\* a new thread, or a reply to a discussion that is named
PostTargetOk(k) ==
    StartsDiscussion(k) \/ (Supplied(k, "discussionId") /\ items[k]["discussionId"] # "")
HasKey(obj, key) == key \in DOMAIN obj
PositionOf(k) == RequestOf(k).body["position"]
FiveKeys == {"new_path", "old_path", "base_sha", "head_sha", "start_sha"}

\* C2 as stated: the request body has a position key iff all five location
\* fields are non-empty, and when any of the five is empty the request is still
\* issued, with no position key.
C2_AsStated ==
    \A k \in Items :
        Post(k) /\ Handled(k)
            => /\ Issued(k) => (HasKey(RequestOf(k).body, "position") <=> AllFive(k))
               /\ ~AllFive(k)
                    => Issued(k) /\ ~HasKey(RequestOf(k).body, "position")

\* C2 amended: the request body has a position key iff all five location
\* fields are non-empty; when any of the five is empty no error comes from the
\* position, and the request is still issued, with no position key, provided
\* the other checks pass (a positive mergeRequestIid, and a new discussion or a
\* non-empty discussionId).
C2_PositionGate ==
    \A k \in Items :
        Post(k) /\ Handled(k)
            => /\ Issued(k) => (HasKey(RequestOf(k).body, "position") <=> AllFive(k))
               /\ ~AllFive(k) /\ BuildFailed(k) => error.message # OldLineMessage
               /\ ~AllFive(k) /\ PostEarlyGates(k) /\ PostTargetOk(k)
                    => Issued(k) /\ ~HasKey(RequestOf(k).body, "position")

\* four location fields given, startSha empty: issued without position
C2_Witness ==
    \E k \in Items :
        /\ Post(k) /\ Issued(k)
        /\ Str(k, "newPath") # "" /\ Str(k, "headSha") # "" /\ Str(k, "startSha") = ""
        /\ ~HasKey(RequestOf(k).body, "position")

\* C3 as stated: with all five location fields given, the keys of position are
\* exactly the five location keys plus whichever of new_line / old_line are
\* present, and no other key.
C3_AsStated ==
    \A k \in Items :
        Post(k) /\ AllFive(k) /\ Issued(k)
            => DOMAIN PositionOf(k) \ {"new_line", "old_line"} = FiveKeys

\* C3 amended: the keys of position are position_type, the five location keys,
\* whichever of new_line / old_line are present, and line_range exactly when
\* the four line-range fields are non-empty; no other key.
C3_PositionKeys ==
    \A k \in Items :
        Post(k) /\ AllFive(k) /\ Issued(k)
            => /\ HasKey(RequestOf(k).body, "position")
               /\ DOMAIN PositionOf(k) \ {"new_line", "old_line"} =
                    FiveKeys \cup {"position_type"}
                        \cup (IF AllFour(k) THEN {"line_range"} ELSE {})
               /\ \A f \in {"newPath", "oldPath", "baseSha", "headSha", "startSha"} :
                    items[k][f] \in {PositionOf(k)[key] : key \in FiveKeys}
               /\ PositionOf(k)["position_type"] =
                    IF Str(k, "positionType") = "" THEN "text"
                    ELSE Str(k, "positionType")

C3_Witness ==
    \E k \in Items :
        /\ Post(k) /\ AllFive(k) /\ Issued(k)
        /\ ~Supplied(k, "newLine") /\ ~Supplied(k, "oldLine") /\ ~AllFour(k)
        /\ DOMAIN PositionOf(k) = FiveKeys \cup {"position_type"}

\* C4 as stated: with all five location fields non-empty and a negative
\* oldLine the call fails with the oldLine message, and no request is issued.
C4_AsStated ==
    \A k \in Items :
        Post(k) /\ AllFive(k) /\ OldLineNegative(k) /\ Handled(k)
            => BuildFailedWith(k, OldLineMessage) /\ ~Issued(k)

\* C4 amended: with all five location fields non-empty and a negative oldLine
\* the call fails and no request (so no position) is issued; the message is
\* the oldLine message when mergeRequestIid is positive, the earlier
\* mergeRequestIid check failing first otherwise.
C4_NegativeOldLine ==
    \A k \in Items :
        Post(k) /\ AllFive(k) /\ OldLineNegative(k) /\ Handled(k)
            => /\ ~Issued(k)
               /\ BuildFailed(k)
               /\ error.message =
                    IF PositiveParam(k, "mergeRequestIid") THEN OldLineMessage
                    ELSE requirePositiveMessage("mergeRequestIid")

C4_Witness ==
    \E k \in Items :
        /\ Post(k) /\ AllFive(k) /\ OldLineNegative(k)
        /\ BuildFailedWith(k, OldLineMessage)
        /\ sent = <<>>

\* the messages that contain "non-negative"
NonNegativeMessages == {OldLineMessage}

\* C5 as stated: every call whose oldLine is negative fails with a message
\* containing "non-negative", whatever the other fields are.
C5_AsStated ==
    \A k \in Items :
        Post(k) /\ OldLineNegative(k) /\ Handled(k)
            => BuildFailed(k) /\ error.message \in NonNegativeMessages

\* C5 amended: a call with a positive mergeRequestIid whose oldLine is negative
\* fails with a message containing "non-negative" exactly when all five
\* location fields are non-empty; when one of them is empty the negative
\* oldLine is never looked at, whatever the other fields are.
C5_NegativeOldLineNeedsPosition ==
    \A k \in Items :
        Post(k) /\ OldLineNegative(k) /\ Handled(k)
            => /\ PositiveParam(k, "mergeRequestIid")
                    => ((BuildFailed(k) /\ error.message \in NonNegativeMessages)
                            <=> AllFive(k))
               /\ ~AllFive(k) /\ BuildFailed(k)
                    => error.message \notin NonNegativeMessages
               /\ ~AllFive(k) /\ PositiveParam(k, "mergeRequestIid") /\ PostTargetOk(k)
                    => Issued(k)

\* a negative oldLine goes unnoticed: the request is issued
C5_Witness ==
    \E k \in Items :
        /\ Post(k) /\ OldLineNegative(k) /\ ~AllFive(k)
        /\ Issued(k) /\ pc = "done"

\* C6: when a position is built, new_line is present exactly when newLine is
\* not null (0 included) and old_line exactly when oldLine is neither null nor
\* 0; each carries the number given.
C6_LineKeys ==
    \A k \in Items :
        Post(k) /\ Issued(k) /\ HasKey(RequestOf(k).body, "position")
            => /\ HasKey(PositionOf(k), "new_line") <=> Line(k, "newLine") # Null
               /\ HasKey(PositionOf(k), "new_line")
                    => PositionOf(k)["new_line"] \in Line(k, "newLine")
               /\ HasKey(PositionOf(k), "old_line")
                    <=> (Line(k, "oldLine") # Null /\ Line(k, "oldLine") # Num(0))
               /\ HasKey(PositionOf(k), "old_line")
                    => PositionOf(k)["old_line"] \in Line(k, "oldLine")

\* newLine = 0 is kept, oldLine = 0 is dropped
C6_Witness ==
    \E k \in Items :
        /\ Post(k) /\ Issued(k) /\ HasKey(RequestOf(k).body, "position")
        /\ Line(k, "newLine") = Num(0) /\ Line(k, "oldLine") = Num(0)
        /\ PositionOf(k)["new_line"] = 0
        /\ ~HasKey(PositionOf(k), "old_line")

C6_WitnessOldLine ==
    \E k \in Items :
        /\ Post(k) /\ Issued(k) /\ HasKey(RequestOf(k).body, "position")
        /\ Line(k, "oldLine") = Num(MaxLine)
        /\ PositionOf(k)["old_line"] = MaxLine

\* a reply whose discussionId is empty or missing
ReplyWithoutDiscussionId(k) ==
    /\ Post(k) /\ ~StartsDiscussion(k)
    /\ Supplied(k, "discussionId") => items[k]["discussionId"] = ""

\* C7 as stated: with startDiscussion false and a discussionId that is empty
\* or not supplied the call fails with the Discussion ID message, and no
\* request is issued.
C7_AsStated ==
    \A k \in Items :
        ReplyWithoutDiscussionId(k) /\ Handled(k)
            => BuildFailedWith(k, DiscussionIdMessage) /\ ~Issued(k)

\* C7 amended: with startDiscussion false and a discussionId that is empty or
\* not supplied the call fails and no request is issued.  The message is that
\* of the first check that fails: mergeRequestIid positivity, then the negative
\* oldLine of a complete location, then the discussionId, for which an empty
\* value gives the Discussion ID message and a missing one the Field
\* Resolver's "Could not get parameter discussionId".
C7_MissingDiscussionId ==
    \A k \in Items :
        ReplyWithoutDiscussionId(k) /\ Handled(k)
            => /\ ~Issued(k)
               /\ BuildFailed(k)
               /\ error.message =
                    IF ~PositiveParam(k, "mergeRequestIid")
                    THEN requirePositiveMessage("mergeRequestIid")
                    ELSE IF AllFive(k) /\ OldLineNegative(k) THEN OldLineMessage
                    ELSE IF Supplied(k, "discussionId") THEN DiscussionIdMessage
                    ELSE CouldNotGet("discussionId")

C7_Witness ==
    \E k \in Items :
        /\ ReplyWithoutDiscussionId(k) /\ Supplied(k, "discussionId")
        /\ BuildFailedWith(k, DiscussionIdMessage)
        /\ sent = <<>>

C7_WitnessNotSupplied ==
    \E k \in Items :
        /\ ReplyWithoutDiscussionId(k) /\ ~Supplied(k, "discussionId")
        /\ BuildFailedWith(k, CouldNotGet("discussionId"))

\* C8: every postDiscussionNote request is a POST, to
\* {base}/merge_requests/{iid}/discussions when startDiscussion is true and to
\* {base}/merge_requests/{iid}/discussions/{discussionId}/notes when it is
\* false (the discussionId is then non-empty); with startDiscussion true the
\* discussionId is never required: no call fails over it.
C8_Endpoint ==
    \A k \in Items :
        Post(k) /\ Handled(k)
            => /\ Issued(k)
                    => /\ PositiveParam(k, "mergeRequestIid")
                       /\ RequestOf(k).method = "POST"
                       /\ RequestOf(k).endpoint =
                            IF StartsDiscussion(k)
                            THEN Base \o "/merge_requests/"
                                      \o ToString(items[k]["mergeRequestIid"])
                                      \o "/discussions"
                            ELSE Base \o "/merge_requests/"
                                      \o ToString(items[k]["mergeRequestIid"])
                                      \o "/discussions/" \o items[k]["discussionId"]
                                      \o "/notes"
                       /\ ~StartsDiscussion(k) => items[k]["discussionId"] # ""
               /\ StartsDiscussion(k) /\ BuildFailed(k)
                    => error.message \notin
                         {DiscussionIdMessage, CouldNotGet("discussionId")}
               /\ StartsDiscussion(k) /\ PositiveParam(k, "mergeRequestIid")
                  /\ ~(AllFive(k) /\ OldLineNegative(k))
                    => Issued(k)

\* a new discussion is posted although no discussionId is supplied
C8_Witness ==
    \E k \in Items :
        /\ Post(k) /\ StartsDiscussion(k) /\ ~Supplied(k, "discussionId")
        /\ Issued(k)
        /\ RequestOf(k).endpoint = "/projects/1/merge_requests/1/discussions"

C8_WitnessReply ==
    \E k \in Items :
        /\ Post(k) /\ ~StartsDiscussion(k) /\ Issued(k)
        /\ RequestOf(k).endpoint = "/projects/1/merge_requests/1/discussions/d5/notes"

\* one side of a line range: line_code and type, plus old_line / new_line
\* exactly when the matching number is not null, whatever its sign
SideIs(side, lineCode, type, oldLine, newLine) ==
    /\ DOMAIN side = {"line_code", "type"}
                        \cup (IF oldLine # Null THEN {"old_line"} ELSE {})
                        \cup (IF newLine # Null THEN {"new_line"} ELSE {})
    /\ side["line_code"] = lineCode
    /\ side["type"] = type
    /\ oldLine # Null => side["old_line"] \in oldLine
    /\ newLine # Null => side["new_line"] \in newLine

\* C9: when a position is built, position.line_range is present iff the four
\* line-range fields (start and end line_code and type) are non-empty; its
\* start and end hold line_code and type, plus old_line / new_line exactly when
\* the matching line-range number is not null, negative numbers included.
C9_LineRange ==
    \A k \in Items :
        Post(k) /\ Issued(k) /\ HasKey(RequestOf(k).body, "position")
            => /\ HasKey(PositionOf(k), "line_range") <=> AllFour(k)
               /\ HasKey(PositionOf(k), "line_range")
                    => /\ DOMAIN PositionOf(k)["line_range"] = {"start", "end"}
                       /\ SideIs(PositionOf(k)["line_range"]["start"],
                                 Str(k, "lineRangeStartLineCode"),
                                 Str(k, "lineRangeStartType"),
                                 Line(k, "lineRangeStartOldLine"),
                                 Line(k, "lineRangeStartNewLine"))
                       /\ SideIs(PositionOf(k)["line_range"]["end"],
                                 Str(k, "lineRangeEndLineCode"),
                                 Str(k, "lineRangeEndType"),
                                 Line(k, "lineRangeEndOldLine"),
                                 Line(k, "lineRangeEndNewLine"))

\* a line range with a negative start old_line and an end new_line of 0
C9_Witness ==
    \E k \in Items :
        /\ Post(k) /\ Issued(k) /\ HasKey(RequestOf(k).body, "position")
        /\ HasKey(PositionOf(k), "line_range")
        /\ PositionOf(k)["line_range"]["start"] =
             [line_code |-> "code1", type |-> "new", old_line |-> -1]
        /\ PositionOf(k)["line_range"]["end"] =
             [line_code |-> "code2", type |-> "old", new_line |-> 0]

\* three of the four line-range fields: a position without line_range
C9_WitnessPartial ==
    \E k \in Items :
        /\ Post(k) /\ Issued(k) /\ HasKey(RequestOf(k).body, "position")
        /\ Str(k, "lineRangeStartLineCode") # "" /\ Str(k, "lineRangeEndType") = ""
        /\ ~HasKey(PositionOf(k), "line_range")

(***************************************************************************)
(* Failures and dispatch over a batch of items.                            *)
(***************************************************************************)
\* C11: an item whose build phase raises a validation failure has no request
\* sent for it, before or after the failure, and the failure is not retried:
\* once execute has failed nothing is sent and it stays failed.
C11_NoRequestOnFailure ==
    /\ [](\A k \in Items : BuildFailed(k) => ~Issued(k))
    /\ [][pc = "failed" => (pc' = "failed" /\ sent' = sent)]_vars

\* the second item is of an unsupported operation; only the first was sent
C11_Witness ==
    /\ Len(items) = 2
    /\ BuildFailedWith(2, UnsupportedMessage("approve"))
    /\ Issued(1) /\ Len(sent) = 1

\* one failed call of each kind of validation failure
C11_WitnessKinds ==
    /\ BuildFailed(1) /\ sent = <<>>
    /\ error.message \in
         {requirePositiveMessage("mergeRequestIid"), OldLineMessage,
          MutuallyExclusiveMessage, DiscussionIdMessage}

\* the operations each resource's branch tests for
KnownOperations(res) ==
    IF res = "tag" THEN {"create", "get", "getAll", "delete"}
    ELSE IF res = "release" THEN {"create", "update", "get", "getAll", "delete"}
    ELSE IF res = "group" THEN {"create", "get", "delete", "getMembers"}
    ELSE IF res = "project" THEN {"create", "get", "getAll", "search"}
    ELSE IF res = "issue" THEN {"create", "get", "getAll", "update", "close", "reopen"}
    ELSE IF res = "raw" THEN {"request"}
    ELSE IF res = "mergeRequest"
    THEN {"create", "get", "getAll", "createNote", "postDiscussionNote", "updateNote",
          "updateDiscussionNote", "getChanges", "getDiscussions", "getDiscussion",
          "updateDiscussion", "deleteDiscussion", "getNote", "deleteNote",
          "deleteDiscussionNote", "resolveDiscussion", "merge", "rebase", "close",
          "reopen", "labels"}
    ELSE {}

Unrecognized(k) == items[k]["operation"] \notin KnownOperations(items[k]["resource"])

\* C12 as stated: an item whose (resource, operation) pair is not recognized,
\* an operation its known resource does not define included, fails in its build
\* phase and no request is made for it.
C12_AsStated ==
    \A k \in Items : Unrecognized(k) /\ Handled(k) => BuildFailed(k) /\ ~Issued(k)

\* what the code does instead: a tag item of an operation the tag branch does
\* not test for is sent as the request the branch starts from, GET on the
\* empty path
C12_FallThroughSent ==
    /\ items = <<TagUnsupportedItem>>
    /\ Issued(1) /\ RequestOf(1) = initialRequest
    /\ pc = "done"

(***************************************************************************)
(* The merge-request operations, one item each.                            *)
(***************************************************************************)
OperationOf(k) == items[k]["operation"]
IidOperations == KnownOperations("mergeRequest") \ {"create", "getAll"}
NoteIdOperations ==
    {"getNote", "updateNote", "deleteNote", "updateDiscussionNote",
     "deleteDiscussionNote"}
BadIid(k) == OperationOf(k) \in IidOperations /\ ~PositiveParam(k, "mergeRequestIid")
BadNoteId(k) == OperationOf(k) \in NoteIdOperations /\ ~PositiveParam(k, "noteId")
\* the messages that contain "<name> must be a positive number"
PositiveMessages(name) == {requirePositiveMessage(name)}

\* C13 as stated: in every operation that reads it, a mergeRequestIid that is
\* not positive makes the call fail with a message containing "mergeRequestIid
\* must be a positive number", and no request is issued; the same gate applies
\* to noteId, with its message, in the five operations that read it (read
\* here for calls whose mergeRequestIid passes).
C13_AsStated ==
    \A k \in Items :
        /\ BadIid(k) /\ Handled(k)
            => /\ BuildFailed(k) /\ ~Issued(k)
               /\ error.message \in PositiveMessages("mergeRequestIid")
        /\ BadNoteId(k) /\ ~BadIid(k) /\ Handled(k)
            => /\ BuildFailed(k) /\ ~Issued(k)
               /\ error.message \in PositiveMessages("noteId")

\* C13 amended: a mergeRequestIid or a noteId that is not positive makes the
\* call fail, and no request is issued.  The message is that of the id checked
\* first: mergeRequestIid, except in updateNote, which checks noteId first.
C13_PositiveIds ==
    \A k \in Items :
        (BadIid(k) \/ BadNoteId(k)) /\ Handled(k)
            => /\ BuildFailed(k) /\ ~Issued(k)
               /\ error.message \in
                    IF BadIid(k) /\ ~(OperationOf(k) = "updateNote" /\ BadNoteId(k))
                    THEN PositiveMessages("mergeRequestIid")
                    ELSE PositiveMessages("noteId")

\* updateNote with both ids 0 fails over noteId
C13_Witness ==
    \E k \in Items :
        /\ OperationOf(k) = "updateNote"
        /\ items[k]["mergeRequestIid"] = 0 /\ items[k]["noteId"] = 0
        /\ BuildFailedWith(k, requirePositiveMessage("noteId"))
        /\ sent = <<>>

\* the requests sent for item k
RequestsOf(k) == {j \in 1..Len(sent) : sent[j].item = k}
Iid(k) == items[k]["mergeRequestIid"]
MergeRequestPath(k) == Base \o "/merge_requests/" \o ToString(Iid(k))
GoodIid(k, op) == OperationOf(k) = op /\ PositiveParam(k, "mergeRequestIid")

\* C14: get with a positive iid produces exactly one request, for the
\* single-page Executor: method GET, path {base}/merge_requests/{iid}, empty
\* body and empty query.
C14_Get ==
    \A k \in Items :
        GoodIid(k, "get") /\ Handled(k)
            => /\ Cardinality(RequestsOf(k)) = 1
               /\ RequestOf(k) =
                    Request("GET", MergeRequestPath(k), EmptyObject, EmptyObject, FALSE)

C14_Witness ==
    \E k \in Items :
        /\ GoodIid(k, "get") /\ pc = "done"
        /\ Cardinality(RequestsOf(k)) = 1
        /\ RequestOf(k).method = "GET"
        /\ RequestOf(k).endpoint = "/projects/1/merge_requests/1"

(***************************************************************************)
(* Order and independence of the items of a batch.                         *)
(***************************************************************************)
\* C15: requests are issued in increasing item index, and in returnData (the
\* list execute returns) the entries of item a come before those of item b
\* whenever a < b.
C15_InputOrder ==
    /\ \A a, b \in 1..Len(sent) : a < b => sent[a].item < sent[b].item
    /\ \A a, b \in 1..Len(returnData) :
         returnData[a].item < returnData[b].item => a < b

\* two items answered with MaxResp entries each, returned in input order
C15_Witness ==
    /\ pc = "done" /\ Len(items) = 2
    /\ Len(sent) = 2 /\ sent[1].item = 1 /\ sent[2].item = 2
    /\ Len(returnData) = 2 * MaxResp
    /\ \A a \in 1..Len(returnData) :
         returnData[a].item = IF a <= MaxResp THEN 1 ELSE 2

\* what is built from the fields of p alone: its own resource and operation
\* decide, as in an execution of p on its own
OwnOutcome(p) ==
    IF p["resource"] = "mergeRequest" THEN handleMergeRequest(p)
    ELSE executeItem(p["resource"], p["operation"], p)

\* C16 as stated: the request built for item k is a function of the fields of
\* item k only, so that any two executions that agree on item k's fields issue
\* the same request for it: the request is the one item k's own fields give,
\* whatever the other items (the first in particular) are.
C16_AsStated ==
    \A k \in Items :
        /\ Issued(k) => RequestOf(k) = OwnOutcome(items[k])
        /\ BuildFailed(k) => Throw(error.message) = OwnOutcome(items[k])

\* what the code does instead: the merge-request get item is sent as a tag
\* get, because the first item's resource and operation were used for it
C16_FirstItemDecides ==
    /\ items = <<TagGetItem, GetTaggedItem>>
    /\ Issued(2)
    /\ RequestOf(2).endpoint = "/projects/1/repository/tags/rel%2F1"
    /\ OwnOutcome(items[2]).endpoint = "/projects/1/merge_requests/1"

\* where execute is suspended at an await: the credential of the prologue
\* (line 1231), the credential of item i (line 1235), the credential inside
\* handleMergeRequest (mergeRequest.ts line 23), the Executor call
SuspensionPoints == {"auth", "credential", "handler", "await"}
\* the part of item i's sequence that comes before its Executor call
Building == pc \in {"credential", "handler"}

\* C17 as stated: at most one request is in flight, the build of an item does
\* not start before the Executor call of the item before it has returned, and
\* the only suspension point within an item's build-then-execute sequence is
\* the Executor call.
C17_AsStated ==
    /\ inflight # NoRequest => pc = "await"
    /\ Building => inflight = NoRequest /\ \A j \in 1..Len(sent) : sent[j].item < i
    /\ pc \in SuspensionPoints \ {"auth"} => pc = "await"

\* C17 amended: a request is in flight only while execute awaits the Executor,
\* and it is the one of item i; a request is issued only out of the build of
\* item i, when none is in flight and every earlier item has been answered;
\* within an item's sequence execute is suspended at the credential awaits
\* (once in execute, once more in handleMergeRequest) and at the Executor call,
\* and what it does from one of these to the next is one synchronous step.
C17_Sequential ==
    /\ [](inflight # NoRequest <=> pc = "await")
    /\ [](pc = "await" => sent[Len(sent)] = [item |-> i, request |-> inflight])
    /\ [](Building => \A j \in 1..Len(sent) : sent[j].item < i)
    /\ [][sent' # sent =>
            /\ Building /\ inflight = NoRequest
            /\ pc' = "await" /\ sent' = Append(sent, [item |-> i, request |-> inflight'])
         ]_vars
    /\ [][pc = "credential" => pc' \in {"handler", "await", "failed"}]_vars
    /\ [][pc = "handler" => pc' \in {"await", "failed"}]_vars

\* the second item awaits the credential inside handleMergeRequest: the first
\* item was answered, nothing is in flight
C17_Witness ==
    /\ pc = "handler" /\ i = 2
    /\ Len(sent) = 1 /\ sent[1].item = 1
    /\ inflight = NoRequest

(***************************************************************************)
(* merge, rebase, close and reopen.                                        *)
(***************************************************************************)
MergeMessage(k) == getNodeParameter(items[k], "mergeCommitMessage", "")
MergeStrategy(k) == getNodeParameter(items[k], "mergeStrategy", "merge")

\* C18: merge with a positive iid is a PUT to {base}/merge_requests/{iid}/merge
\* whose body has merge_commit_message, the message, exactly when the message
\* is non-empty, and squash exactly when the strategy is "squash", its value
\* then true; squash is never false, and the body has no other key.
C18_Merge ==
    \A k \in Items :
        GoodIid(k, "merge") /\ Handled(k)
            => /\ Issued(k)
               /\ RequestOf(k).method = "PUT"
               /\ RequestOf(k).endpoint = MergeRequestPath(k) \o "/merge"
               /\ RequestOf(k).qs = EmptyObject
               /\ DOMAIN RequestOf(k).body =
                    (IF MergeMessage(k) # "" THEN {"merge_commit_message"} ELSE {})
                    \cup (IF MergeStrategy(k) = "squash" THEN {"squash"} ELSE {})
               /\ HasKey(RequestOf(k).body, "merge_commit_message")
                    => RequestOf(k).body["merge_commit_message"] = MergeMessage(k)
               /\ HasKey(RequestOf(k).body, "squash")
                    => RequestOf(k).body["squash"] = TRUE

\* strategy "merge" and an empty message: the body is empty
C18_Witness ==
    \E k \in Items :
        /\ GoodIid(k, "merge") /\ Issued(k)
        /\ Supplied(k, "mergeStrategy") /\ MergeStrategy(k) = "merge"
        /\ Supplied(k, "mergeCommitMessage") /\ MergeMessage(k) = ""
        /\ RequestOf(k).body = EmptyObject

C18_WitnessSquash ==
    \E k \in Items :
        /\ GoodIid(k, "merge") /\ Issued(k)
        /\ RequestOf(k).body = [merge_commit_message |-> "msg", squash |-> TRUE]

SkipCi(k) == getNodeParameter(items[k], "skipCi", FALSE)

\* C19: rebase with a positive iid is a PUT to
\* {base}/merge_requests/{iid}/rebase whose query is {skip_ci: true} when the
\* skip flag is true and has no skip_ci key when the flag is false or absent.
C19_Rebase ==
    \A k \in Items :
        GoodIid(k, "rebase") /\ Handled(k)
            => /\ Issued(k)
               /\ RequestOf(k).method = "PUT"
               /\ RequestOf(k).endpoint = MergeRequestPath(k) \o "/rebase"
               /\ RequestOf(k).body = EmptyObject
               /\ RequestOf(k).qs =
                    IF SkipCi(k) THEN [skip_ci |-> TRUE] ELSE EmptyObject

\* the flag is supplied and false: no skip_ci key
C19_Witness ==
    \E k \in Items :
        /\ GoodIid(k, "rebase") /\ Issued(k)
        /\ Supplied(k, "skipCi") /\ ~SkipCi(k)
        /\ ~HasKey(RequestOf(k).qs, "skip_ci")

C19_WitnessSkip ==
    \E k \in Items :
        /\ GoodIid(k, "rebase") /\ Issued(k) /\ SkipCi(k)
        /\ RequestOf(k).qs = [skip_ci |-> TRUE]

\* C20: close and reopen with a positive iid are a PUT to
\* {base}/merge_requests/{iid}, no suffix, whose body is exactly
\* {state_event: "close"} for close and {state_event: "reopen"} for reopen.
C20_CloseReopen ==
    \A k \in Items :
        (GoodIid(k, "close") \/ GoodIid(k, "reopen")) /\ Handled(k)
            => /\ Issued(k)
               /\ RequestOf(k).method = "PUT"
               /\ RequestOf(k).endpoint = MergeRequestPath(k)
               /\ RequestOf(k).qs = EmptyObject
               /\ RequestOf(k).body = [state_event |-> OperationOf(k)]

C20_Witness ==
    \E k \in Items :
        /\ GoodIid(k, "reopen") /\ Issued(k)
        /\ RequestOf(k).body = [state_event |-> "reopen"]
        /\ RequestOf(k).endpoint = "/projects/1/merge_requests/1"

C20_WitnessClose ==
    \E k \in Items :
        /\ GoodIid(k, "close") /\ Issued(k)
        /\ RequestOf(k).body = [state_event |-> "close"]

(***************************************************************************)
(* labels.                                                                 *)
(***************************************************************************)
LabelAction(k) == items[k]["labelAction"]
LabelKeys == {"add_labels", "remove_labels"}

\* C21: labels with a positive iid is a PUT to {base}/merge_requests/{iid}
\* whose body has, for every value of the action selector, exactly one key:
\* add_labels when the action is "add", remove_labels when it is "remove",
\* carrying the labels text unchanged; never both keys and never neither.
C21_Labels ==
    \A k \in Items :
        GoodIid(k, "labels") /\ Handled(k)
            => /\ Issued(k)
               /\ RequestOf(k).method = "PUT"
               /\ RequestOf(k).endpoint = MergeRequestPath(k)
               /\ RequestOf(k).qs = EmptyObject
               /\ Cardinality(DOMAIN RequestOf(k).body) = 1
               /\ DOMAIN RequestOf(k).body \subseteq LabelKeys
               /\ LabelAction(k) = "add"
                    => RequestOf(k).body = [add_labels |-> items[k]["labels"]]
               /\ LabelAction(k) = "remove"
                    => RequestOf(k).body = [remove_labels |-> items[k]["labels"]]

C21_Witness ==
    \E k \in Items :
        /\ GoodIid(k, "labels") /\ Issued(k) /\ LabelAction(k) = "remove"
        /\ RequestOf(k).body = [remove_labels |-> "bug,urgent"]

\* an action that is neither option: still exactly one key
C21_WitnessOther ==
    \E k \in Items :
        /\ GoodIid(k, "labels") /\ Issued(k) /\ LabelAction(k) \notin {"add", "remove"}
        /\ Cardinality(DOMAIN RequestOf(k).body) = 1

(***************************************************************************)
(* updateDiscussion and resolveDiscussion.                                 *)
(***************************************************************************)
ResolveChoice(k) ==
    IF Supplied(k, "resolved") THEN items[k]["resolved"] ELSE "none"
DiscussionPath(k) == MergeRequestPath(k) \o "/discussions/" \o items[k]["discussionId"]
TwinOperation(op) ==
    IF op = "updateDiscussion" THEN "resolveDiscussion" ELSE "updateDiscussion"
\* the parameters of item k, under the other of the two operations
TwinParams(k) == [items[k] EXCEPT !["operation"] = TwinOperation(OperationOf(k))]

\* C22: updateDiscussion and resolveDiscussion with a positive iid are a PUT
\* to {base}/merge_requests/{iid}/discussions/{discussionId}; the body is
\* empty when the resolved choice is "none" (the request is still issued),
\* {resolved: true} for "true" and {resolved: false} for "false"; and for the
\* same inputs the other operation builds the same request.
C22_Discussion ==
    \A k \in Items :
        (GoodIid(k, "updateDiscussion") \/ GoodIid(k, "resolveDiscussion")) /\ Handled(k)
            => /\ Issued(k)
               /\ RequestOf(k).method = "PUT"
               /\ RequestOf(k).endpoint = DiscussionPath(k)
               /\ RequestOf(k).qs = EmptyObject
               /\ ResolveChoice(k) = "none" => RequestOf(k).body = EmptyObject
               /\ ResolveChoice(k) = "true" => RequestOf(k).body = [resolved |-> TRUE]
               /\ ResolveChoice(k) = "false" => RequestOf(k).body = [resolved |-> FALSE]
               /\ RequestOf(k) = handleMergeRequest(TwinParams(k))

\* resolveDiscussion with the choice "none": an empty body, and issued
C22_Witness ==
    \E k \in Items :
        /\ GoodIid(k, "resolveDiscussion") /\ Issued(k)
        /\ Supplied(k, "resolved") /\ ResolveChoice(k) = "none"
        /\ RequestOf(k).body = EmptyObject
        /\ RequestOf(k).endpoint = "/projects/1/merge_requests/1/discussions/d5"

C22_WitnessFalse ==
    \E k \in Items :
        /\ GoodIid(k, "updateDiscussion") /\ Issued(k)
        /\ RequestOf(k).body = [resolved |-> FALSE]

(***************************************************************************)
(* getChanges.                                                             *)
(***************************************************************************)
Flag(k, name) == Supplied(k, name) /\ items[k][name]

\* C23: getChanges with a positive iid is a GET to
\* {base}/merge_requests/{iid}/changes with an empty body; the query has
\* access_raw_diffs, with the value true, exactly when accessRawDiffs is true,
\* and unidiff, with the value true, exactly when unidiff is true; neither
\* key is ever present with the value false.
C23_GetChanges ==
    \A k \in Items :
        GoodIid(k, "getChanges") /\ Handled(k)
            => /\ Issued(k)
               /\ RequestOf(k).method = "GET"
               /\ RequestOf(k).endpoint = MergeRequestPath(k) \o "/changes"
               /\ RequestOf(k).body = EmptyObject
               /\ DOMAIN RequestOf(k).qs \subseteq {"access_raw_diffs", "unidiff"}
               /\ HasKey(RequestOf(k).qs, "access_raw_diffs") <=> Flag(k, "accessRawDiffs")
               /\ HasKey(RequestOf(k).qs, "unidiff") <=> Flag(k, "unidiff")
               /\ \A key \in DOMAIN RequestOf(k).qs : RequestOf(k).qs[key] = TRUE

\* accessRawDiffs on, unidiff supplied and off: only access_raw_diffs
C23_Witness ==
    \E k \in Items :
        /\ GoodIid(k, "getChanges") /\ Issued(k)
        /\ Flag(k, "accessRawDiffs")
        /\ Supplied(k, "unidiff") /\ ~Flag(k, "unidiff")
        /\ RequestOf(k).qs = [access_raw_diffs |-> TRUE]

C23_WitnessNone ==
    \E k \in Items :
        /\ GoodIid(k, "getChanges") /\ Issued(k)
        /\ Supplied(k, "accessRawDiffs") /\ ~Flag(k, "accessRawDiffs")
        /\ ~Flag(k, "unidiff")
        /\ RequestOf(k).qs = EmptyObject

(***************************************************************************)
(* getAll and getDiscussions.                                              *)
(***************************************************************************)
\* the HTTP calls made for item k
CallsOf(k) == {j \in 1..Len(http) : http[j].item = k}
ListCall(k) == IsOperation(k, "getAll") \/ GoodIid(k, "getDiscussions")
ListPath(k) ==
    IF OperationOf(k) = "getAll" THEN Base \o "/merge_requests"
    ELSE MergeRequestPath(k) \o "/discussions"
ReturnAll(k) == items[k]["returnAll"]
\* the call was made by the paginating Executor: it carries a page index
Paged(call) == HasKey(call.qs, "page")

\* C24: for getAll and getDiscussions, when returnAll is false the query is
\* per_page = limit and the request goes to the single-page Executor, which
\* is called exactly once for the item; when returnAll is true the builder
\* writes no per_page, does not read limit (the call succeeds without it and
\* the request is the same under another limit) and hands the request to the
\* paginating Executor.  The returnAll field of a request in sent is the
\* Executor it was handed to.
C24_List ==
    \A k \in Items :
        ListCall(k) /\ Handled(k)
            => /\ Issued(k)
               /\ Cardinality(RequestsOf(k)) = 1
               /\ RequestOf(k).method = "GET"
               /\ RequestOf(k).endpoint = ListPath(k)
               /\ RequestOf(k).body = EmptyObject
               /\ RequestOf(k).returnAll = ReturnAll(k)
               /\ ~ReturnAll(k) => RequestOf(k).qs = [per_page |-> items[k]["limit"]]
               /\ ReturnAll(k)
                    => /\ RequestOf(k).qs = EmptyObject
                       /\ RequestOf(k) =
                            handleMergeRequest(("limit" :> MaxResp + 1) @@ items[k])

\* returnAll on and no limit in the parameters: the request is issued
C24_Witness ==
    \E k \in Items :
        /\ GoodIid(k, "getDiscussions") /\ Issued(k)
        /\ ReturnAll(k) /\ ~Supplied(k, "limit")
        /\ RequestOf(k).qs = EmptyObject /\ RequestOf(k).returnAll
        /\ RequestOf(k).endpoint = "/projects/1/merge_requests/1/discussions"

\* returnAll off: one call of the single-page Executor, answered
C24_WitnessLimit ==
    \E k \in Items :
        /\ IsOperation(k, "getAll") /\ ~ReturnAll(k) /\ pc = "done"
        /\ RequestOf(k).qs = [per_page |-> MaxResp]
        /\ ~RequestOf(k).returnAll /\ Cardinality(RequestsOf(k)) = 1

(***************************************************************************)
(* The pages of a returnAll request.                                       *)
(***************************************************************************)
FirstCallOf(k) == http[CHOOSE j \in CallsOf(k) : \A h \in CallsOf(k) : j <= h]
PagedList(k) == ListCall(k) /\ Supplied(k, "returnAll") /\ ReturnAll(k)

\* C25: with returnAll = true the first page request is a GET on the list
\* path with the query per_page = 100 and page = 1; and a call whose answer
\* carried the empty next-page signal is the last call made for the item.
C25_FirstPage ==
    \A k \in Items :
        PagedList(k) /\ Handled(k)
            => /\ CallsOf(k) # {}
               /\ FirstCallOf(k).method = "GET"
               /\ FirstCallOf(k).endpoint = ListPath(k)
               /\ FirstCallOf(k).qs = [per_page |-> 100, page |-> 1]
               /\ \A j \in CallsOf(k) :
                    http[j].nextPage = NoNextPage => \A h \in CallsOf(k) : h <= j

\* the first page was answered with the empty signal and execute returned:
\* one call was made
C25_Witness ==
    \E k \in Items :
        /\ PagedList(k) /\ pc = "done"
        /\ Cardinality(CallsOf(k)) = 1
        /\ FirstCallOf(k).nextPage = NoNextPage
        /\ FirstCallOf(k).qs = [per_page |-> 100, page |-> 1]

\* the first page announced a second one, which was asked for
C25_WitnessSecondPage ==
    \E k \in Items :
        /\ PagedList(k) /\ pc = "done"
        /\ Cardinality(CallsOf(k)) = 2
        /\ FirstCallOf(k).nextPage = {"2"}
        /\ http[Len(http)].qs = [per_page |-> 100, page |-> 2]

(***************************************************************************)
(* The body of postDiscussionNote: calls with and without commitId,        *)
(* createdAt and the location fields.                                      *)
(***************************************************************************)
NoteInputs ==
    {MergeRequestItem("postDiscussionNote") @@ a @@ b @@ c @@ d @@ e @@ f @@ g @@ h :
        a \in IidInputs, b \in Req("body", {"", "hello"}),
        c \in Opt("startDiscussion", BOOLEAN), d \in Opt("discussionId", {"", "d5"}),
        e \in Opt("commitId", {"", "abc123"}),
        f \in Opt("createdAt", {"", "2024-01-01T00:00:00Z"}),
        g \in {EmptyObject, FullLocation, [FullLocation EXCEPT !["startSha"] = ""]},
        h \in Opt("newLine", Nums(MaxLine, MaxLine))}

InitNote == InitWith({<<p>> : p \in NoteInputs})
SpecNote == InitNote /\ [][Next]_vars

NoLocation(k) ==
    /\ Str(k, "newPath") = "" /\ Str(k, "oldPath") = "" /\ Str(k, "baseSha") = ""
    /\ Str(k, "headSha") = "" /\ Str(k, "startSha") = ""

\* C26: the body of every postDiscussionNote request has body = the note
\* text; it has commit_id, with the value of commitId, exactly when commitId
\* is non-empty, and created_at, with the value of createdAt, exactly when
\* createdAt is non-empty; and when commitId, createdAt and the five location
\* fields are all missing or empty the body is exactly {body: note}.
C26_NoteBody ==
    \A k \in Items :
        Post(k) /\ Issued(k)
            => /\ HasKey(RequestOf(k).body, "body")
               /\ RequestOf(k).body["body"] = items[k]["body"]
               /\ HasKey(RequestOf(k).body, "commit_id") <=> Str(k, "commitId") # ""
               /\ HasKey(RequestOf(k).body, "commit_id")
                    => RequestOf(k).body["commit_id"] = items[k]["commitId"]
               /\ HasKey(RequestOf(k).body, "created_at") <=> Str(k, "createdAt") # ""
               /\ HasKey(RequestOf(k).body, "created_at")
                    => RequestOf(k).body["created_at"] = items[k]["createdAt"]
               /\ Str(k, "commitId") = "" /\ Str(k, "createdAt") = "" /\ NoLocation(k)
                    => RequestOf(k).body = [body |-> items[k]["body"]]

\* commitId given, createdAt supplied and empty, a position built
C26_Witness ==
    \E k \in Items :
        /\ Post(k) /\ Issued(k)
        /\ Str(k, "commitId") = "abc123"
        /\ Supplied(k, "createdAt") /\ Str(k, "createdAt") = ""
        /\ DOMAIN RequestOf(k).body = {"body", "commit_id", "position"}
        /\ RequestOf(k).body["commit_id"] = "abc123"

\* nothing beyond the note: the body is {body: note}
C26_WitnessBare ==
    \E k \in Items :
        /\ Post(k) /\ Issued(k)
        /\ Supplied(k, "commitId") /\ Supplied(k, "createdAt") /\ NoLocation(k)
        /\ Supplied(k, "newLine")
        /\ RequestOf(k).body = [body |-> "hello"]

(***************************************************************************)
(* The delete operations.                                                  *)
(***************************************************************************)
DeleteOperations == {"deleteDiscussion", "deleteNote", "deleteDiscussionNote"}
\* a delete call whose ids pass their checks
GoodDelete(k) ==
    /\ OperationOf(k) \in DeleteOperations
    /\ PositiveParam(k, "mergeRequestIid")
    /\ OperationOf(k) # "deleteDiscussion" => PositiveParam(k, "noteId")
DeletePath(k) ==
    IF OperationOf(k) = "deleteDiscussion"
    THEN MergeRequestPath(k) \o "/discussions/" \o items[k]["discussionId"]
    ELSE IF OperationOf(k) = "deleteNote"
    THEN MergeRequestPath(k) \o "/notes/" \o ToString(items[k]["noteId"])
    ELSE MergeRequestPath(k) \o "/discussions/" \o items[k]["discussionId"]
                             \o "/notes/" \o ToString(items[k]["noteId"])
\* the same ids under the get or update operation of the same target
MatchingParams(k) ==
    IF OperationOf(k) = "deleteDiscussion"
    THEN [items[k] EXCEPT !["operation"] = "getDiscussion"]
    ELSE IF OperationOf(k) = "deleteNote"
    THEN [items[k] EXCEPT !["operation"] = "getNote"]
    ELSE ("body" :> "fix") @@ [items[k] EXCEPT !["operation"] = "updateDiscussionNote"]

\* C27: deleteDiscussion, deleteNote and deleteDiscussionNote with positive
\* ids are a DELETE with an empty body and an empty query, to
\* .../discussions/{discussionId}, .../notes/{noteId} and
\* .../discussions/{discussionId}/notes/{noteId}: the path of getDiscussion,
\* getNote and updateDiscussionNote for the same ids.
C27_Delete ==
    \A k \in Items :
        GoodDelete(k) /\ Handled(k)
            => /\ Issued(k)
               /\ RequestOf(k).method = "DELETE"
               /\ RequestOf(k).body = EmptyObject
               /\ RequestOf(k).qs = EmptyObject
               /\ RequestOf(k).endpoint = DeletePath(k)
               /\ handleMergeRequest(MatchingParams(k)).kind = "request"
               /\ RequestOf(k).endpoint = handleMergeRequest(MatchingParams(k)).endpoint

C27_Witness ==
    \E k \in Items :
        /\ GoodDelete(k) /\ OperationOf(k) = "deleteDiscussionNote" /\ Issued(k)
        /\ RequestOf(k).method = "DELETE"
        /\ RequestOf(k).endpoint = "/projects/1/merge_requests/1/discussions/d5/notes/1"

C27_WitnessNote ==
    \E k \in Items :
        /\ GoodDelete(k) /\ OperationOf(k) = "deleteNote" /\ Issued(k)
        /\ RequestOf(k).endpoint = "/projects/1/merge_requests/1/notes/1"

C27_WitnessDiscussion ==
    \E k \in Items :
        /\ GoodDelete(k) /\ OperationOf(k) = "deleteDiscussion" /\ Issued(k)
        /\ RequestOf(k).endpoint = "/projects/1/merge_requests/1/discussions/d5"

(***************************************************************************)
(* A failure ends execute.                                                 *)
(***************************************************************************)
Failed == pc = "failed"

\* C28: a failure while building or executing item k ends the whole call.
\* Once an error is thrown execute is over: no step follows, so no request is
\* issued for an item after k and execute never returns, the results
\* collected for the items before k included (it returns only out of the
\* loop, every item answered and no error thrown).  The requests of the items
\* before k were sent and stay sent: the log of requests only grows.
C28_Abort ==
    /\ [](error # NoError <=> Failed)
    /\ [](Failed => /\ inflight = NoRequest
                    /\ \A j \in 1..Len(sent) : sent[j].item <= error.item
                    /\ \A j \in 1..Len(http) : http[j].item <= error.item
                    /\ \A h \in 1..(error.item - 1) : Issued(h))
    /\ [][~Failed]_vars
    /\ [][pc' = "done" => pc = "loop" /\ i > Len(items) /\ error = NoError]_vars
    /\ [][Len(sent') >= Len(sent) /\ SubSeq(sent', 1, Len(sent)) = sent]_vars
    /\ [][Len(http') >= Len(http)
            /\ \A j \in 1..Len(http) : http'[j].item = http[j].item
                                       /\ http'[j].endpoint = http[j].endpoint]_vars

\* the build of the second item failed: the first item's request was sent and
\* its results were collected, and they are not returned
C28_Witness ==
    /\ Failed /\ error.at = "build" /\ error.item = 2
    /\ Issued(1) /\ ~Issued(2)
    /\ Len(returnData) > 0

\* the Executor rejected the request of the first of two items
C28_WitnessExecutor ==
    /\ Failed /\ error.at = "executor" /\ error.item = 1
    /\ Len(items) = 2 /\ Issued(1) /\ ~Issued(2)

(***************************************************************************)
(* postDiscussionNote: where line_range can appear, and the order of the   *)
(* checks.                                                                 *)
(***************************************************************************)
NoteBodyKeys == {"body", "commit_id", "created_at", "position"}

\* C29: in every postDiscussionNote request issued, line_range is not a key
\* of the body: it can only be a key of body.position.  When the four
\* line-range fields are complete and a location field is empty, the request
\* issued has no position, so no line_range anywhere; a negative oldLine then
\* raises no error, and the request is issued whenever mergeRequestIid and
\* the discussion target pass their checks.
C29_LineRangeNested ==
    \A k \in Items :
        /\ Post(k) /\ Issued(k)
            => /\ DOMAIN RequestOf(k).body \subseteq NoteBodyKeys
               /\ AllFour(k) /\ ~AllFive(k) => ~HasKey(RequestOf(k).body, "position")
        /\ Post(k) /\ Handled(k) /\ AllFour(k) /\ ~AllFive(k)
            => /\ ~BuildFailedWith(k, OldLineMessage)
               /\ PostEarlyGates(k) /\ PostTargetOk(k) => Issued(k)

\* line range complete, startSha empty, oldLine negative: issued, no position
C29_Witness ==
    \E k \in Items :
        /\ Post(k) /\ Issued(k)
        /\ AllFour(k) /\ ~AllFive(k) /\ OldLineNegative(k)
        /\ RequestOf(k).body = [body |-> "hello"]

\* location and line range complete: line_range is inside position
C29_WitnessNested ==
    \E k \in Items :
        /\ Post(k) /\ Issued(k) /\ AllFour(k) /\ AllFive(k)
        /\ HasKey(PositionOf(k), "line_range")
        /\ ~HasKey(RequestOf(k).body, "line_range")

\* C30: postDiscussionNote checks in this order: mergeRequestIid positive,
\* then oldLine not negative (when the location is complete), then
\* discussionId present (when replying).  The first check that fails decides
\* the error; a call that passes all three is issued.  So a reply with an
\* empty discussionId, a complete location and oldLine = -1 fails with the
\* oldLine message, not the Discussion ID one.
C30_CheckOrder ==
    \A k \in Items :
        Post(k) /\ Handled(k)
            => IF ~PositiveParam(k, "mergeRequestIid")
               THEN BuildFailedWith(k, requirePositiveMessage("mergeRequestIid"))
               ELSE IF AllFive(k) /\ OldLineNegative(k)
               THEN BuildFailedWith(k, OldLineMessage)
               ELSE IF ReplyWithoutDiscussionId(k)
               THEN /\ BuildFailed(k)
                    /\ error.message \in {DiscussionIdMessage, CouldNotGet("discussionId")}
               ELSE Issued(k)

\* the example of the claim
C30_Witness ==
    \E k \in Items :
        /\ Post(k) /\ PositiveParam(k, "mergeRequestIid")
        /\ Supplied(k, "startDiscussion") /\ ~StartsDiscussion(k)
        /\ Supplied(k, "discussionId") /\ items[k]["discussionId"] = ""
        /\ AllFive(k) /\ Line(k, "oldLine") = Num(-1)
        /\ BuildFailedWith(k, OldLineMessage)

\* all three checks would fail: the iid decides
C30_WitnessIid ==
    \E k \in Items :
        /\ Post(k) /\ ~PositiveParam(k, "mergeRequestIid")
        /\ AllFive(k) /\ OldLineNegative(k) /\ ReplyWithoutDiscussionId(k)
        /\ BuildFailedWith(k, "mergeRequestIid must be a positive number")

====
